---- MODULE Spec2Model ----
(***************************************************************************)
(* Model of causallib's evaluation package: metric scoring                 *)
(* (score_binary_prediction, score_regression_prediction), the type        *)
(* dispatch score_estimation, the fold loop score_cv and the fold-score    *)
(* combiners of causallib/evaluation/metrics.py, with the weight           *)
(* prediction bundles of causallib/evaluation/weight_evaluator.py.         *)
(*                                                                         *)
(* Vectors (pd.Series) are sequences, positionally aligned.  An optional   *)
(* argument is a record [some, v]; Python's None is [some |-> FALSE].      *)
(* A metric callable is opaque: the value it returns is kept as the term   *)
(* [kind, func, y_true, pred, sw] that records what it was applied to.     *)
(***************************************************************************)
EXTENDS Integers, Sequences, FiniteSets, TLC

VARIABLES op, args, ret, warns, calls, pc, i, scores, fold_scores

vars == <<op, args, ret, warns, calls, pc, i, scores, fold_scores>>

(***************************************************************************)
(* Bounds                                                                  *)
(***************************************************************************)
NSamples == 6
MaxMetrics == 2
MaxFolds == 2
MaxCov == 2

(***************************************************************************)
(* Generic helpers                                                         *)
(***************************************************************************)
None == [some |-> FALSE, v |-> <<>>]
Some(x) == [some |-> TRUE, v |-> x]

Range(s) == {s[k] : k \in 1..Len(s)}

SeqsUpTo(S, n) == UNION {[1..m -> S] : m \in 0..n}

\* sequences whose entries carry pairwise different names: a Python dict
\* in insertion order
IsDict(items) == \A j, k \in 1..Len(items) : j # k => items[j].name # items[k].name

Names(items) == [k \in 1..Len(items) |-> items[k].name]

(***************************************************************************)
(* Metric registries, metrics.py lines 44-76                               *)
(***************************************************************************)
NUMERICAL_CLASSIFICATION_METRICS ==
    << [name |-> "accuracy",      func |-> "accuracy_score"],
       [name |-> "precision",     func |-> "precision_score"],
       [name |-> "recall",        func |-> "recall_score"],
       [name |-> "f1",            func |-> "f1_score"],
       [name |-> "roc_auc",       func |-> "roc_auc_score"],
       [name |-> "avg_precision", func |-> "average_precision_score"],
       [name |-> "hinge",         func |-> "hinge_loss"],
       [name |-> "matthews",      func |-> "matthews_corrcoef"],
       [name |-> "0_1",           func |-> "zero_one_loss"],
       [name |-> "brier",         func |-> "brier_score_loss"] >>

NONNUMERICAL_CLASSIFICATION_METRICS ==
    << [name |-> "confusion_matrix", func |-> "confusion_matrix"],
       [name |-> "roc_curve",        func |-> "roc_curve"],
       [name |-> "pr_curve",         func |-> "precision_recall_curve"] >>

CLASSIFICATION_METRICS ==
    NUMERICAL_CLASSIFICATION_METRICS \o NONNUMERICAL_CLASSIFICATION_METRICS

REGRESSION_METRICS ==
    << [name |-> "expvar", func |-> "explained_variance_score"],
       [name |-> "mae",    func |-> "mean_absolute_error"],
       [name |-> "mse",    func |-> "mean_squared_error"],
       [name |-> "msle",   func |-> "mean_squared_log_error"],
       [name |-> "mdae",   func |-> "mdae_lambda"],
       [name |-> "r2",     func |-> "r2_score"] >>

\* the names routed to the continuous score, metrics.py lines 166-173
PROBA_METRIC_NAMES ==
    {"hinge", "brier", "roc_curve", "roc_auc", "pr_curve", "avg_precision"}

(***************************************************************************)
(* Metric callables.  The library functions of the registries return a     *)
(* scalar or a vector, and fail validation (ValueError) on the degenerate  *)
(* inputs the code's comment names ("if y_true has single value").  A      *)
(* caller-supplied callable is one of four representatives: returns a      *)
(* scalar, returns a vector, raises ValueError, raises another exception.  *)
(***************************************************************************)
UserCallables == {"user_scalar", "user_vector", "user_value_error", "user_type_error"}

VectorValued == {"confusion_matrix", "roc_curve", "precision_recall_curve", "user_vector"}

SingleValued(y) == Cardinality(Range(y)) <= 1

\* "ValueError", "TypeError" or "none": what calling func on these arguments raises
MetricRaises(func, y_true, prediction) ==
    CASE func = "user_value_error" -> "ValueError"
      [] func = "user_type_error" -> "TypeError"
      [] func = "roc_auc_score" /\ SingleValued(y_true) -> "ValueError"
      [] func = "mean_squared_log_error"
           /\ \E k \in 1..Len(prediction) : prediction[k] < 0 -> "ValueError"
      [] OTHER -> "none"

NaN == [kind |-> "nan", func |-> "", y_true |-> <<>>, pred |-> <<>>, sw |-> None]

\* the value metric_func(y_true, prediction, sample_weight=sample_weight) returns;
\* the mdae lambda of line 72 drops the sample weight
MetricValue(func, y_true, prediction, sample_weight) ==
    [kind   |-> IF func \in VectorValued THEN "vector" ELSE "scalar",
     func   |-> func,
     y_true |-> y_true,
     pred   |-> prediction,
     sw     |-> IF func = "mdae_lambda" THEN None ELSE sample_weight]

\* np.isscalar: NaN is a scalar
IsScalar(value) == value.kind # "vector"

Call(name, func, y_true, prediction, sample_weight) ==
    [name |-> name, func |-> func, y_true |-> y_true, pred |-> prediction,
     sw |-> sample_weight]

\* pd.Series(scores, dtype): the dict's keys in insertion order and its values
Series(entries, dtype) ==
    [index |-> Names(entries),
     data  |-> [k \in 1..Len(entries) |-> entries[k].value],
     dtype |-> dtype]

EmptySeries == Series(<<>>, "float")

(***************************************************************************)
(* score_binary_prediction, metrics.py lines 132-195                       *)
(***************************************************************************)
\* lines 158-163
BinaryMetricSet(metrics_to_evaluate, only_numeric_metric) ==
    IF ~metrics_to_evaluate.some
    THEN IF only_numeric_metric
         THEN NUMERICAL_CLASSIFICATION_METRICS
         ELSE CLASSIFICATION_METRICS
    ELSE metrics_to_evaluate.v

\* a routing table that lacks "roc_auc"
RoutedPrediction_NoRocAuc(metric_name, y_pred_proba, y_pred) ==
    IF metric_name \in PROBA_METRIC_NAMES \ {"roc_auc"} THEN y_pred_proba ELSE y_pred

\* lines 166-176
RoutedPrediction(metric_name, y_pred_proba, y_pred) ==
    IF metric_name \in PROBA_METRIC_NAMES THEN y_pred_proba ELSE y_pred

\* a loop body that records NaN for a metric whose input is None
BinaryStep_NaNWhenMissing(st, item, y_true, y_pred_proba, y_pred, sample_weight) ==
    LET prediction == RoutedPrediction(item.name, y_pred_proba, y_pred)
        raised == MetricRaises(item.func, y_true, prediction.v)
        call == Call(item.name, item.func, y_true, prediction.v, sample_weight)
    IN  IF ~prediction.some
        THEN [st EXCEPT !.scores = Append(@, [name |-> item.name, value |-> NaN])]
        ELSE IF raised = "none"
        THEN [st EXCEPT
                !.scores = Append(@, [name |-> item.name,
                     value |-> MetricValue(item.func, y_true, prediction.v,
                                           sample_weight)]),
                !.calls = Append(@, call)]
        ELSE IF raised = "ValueError"
        THEN [st EXCEPT
                !.scores = Append(@, [name |-> item.name, value |-> NaN]),
                !.warns = @ \o << [metric |-> item.name, text |-> "could not be evaluated"],
                                  [metric |-> item.name, text |-> "str(v)"] >>,
                !.calls = Append(@, call)]
        ELSE [st EXCEPT !.exc = raised, !.calls = Append(@, call)]

\* a loop body whose handler starts the mapping over: scores = {name: nan}
BinaryStep_ResetOnFailure(st, item, y_true, y_pred_proba, y_pred, sample_weight) ==
    LET prediction == RoutedPrediction(item.name, y_pred_proba, y_pred)
        raised == MetricRaises(item.func, y_true, prediction.v)
        call == Call(item.name, item.func, y_true, prediction.v, sample_weight)
    IN  IF ~prediction.some
        THEN st
        ELSE IF raised = "none"
        THEN [st EXCEPT
                !.scores = Append(@, [name |-> item.name,
                     value |-> MetricValue(item.func, y_true, prediction.v,
                                           sample_weight)]),
                !.calls = Append(@, call)]
        ELSE IF raised = "ValueError"
        THEN [st EXCEPT
                !.scores = << [name |-> item.name, value |-> NaN] >>,
                !.warns = @ \o << [metric |-> item.name, text |-> "could not be evaluated"],
                                  [metric |-> item.name, text |-> "str(v)"] >>,
                !.calls = Append(@, call)]
        ELSE [st EXCEPT !.exc = raised, !.calls = Append(@, call)]

\* one iteration of the loop of lines 165-188 on the loop state st
BinaryStep(st, item, y_true, y_pred_proba, y_pred, sample_weight) ==
    LET prediction == RoutedPrediction(item.name, y_pred_proba, y_pred)
        raised == MetricRaises(item.func, y_true, prediction.v)
        call == Call(item.name, item.func, y_true, prediction.v, sample_weight)
    IN  IF ~prediction.some
        THEN st
        ELSE IF raised = "none"
        THEN [st EXCEPT
                !.scores = Append(@, [name |-> item.name,
                     value |-> MetricValue(item.func, y_true, prediction.v,
                                           sample_weight)]),
                !.calls = Append(@, call)]
        ELSE IF raised = "ValueError"
        THEN [st EXCEPT
                !.scores = Append(@, [name |-> item.name, value |-> NaN]),
                !.warns = @ \o << [metric |-> item.name, text |-> "could not be evaluated"],
                                  [metric |-> item.name, text |-> "str(v)"] >>,
                !.calls = Append(@, call)]
        ELSE [st EXCEPT !.exc = raised, !.calls = Append(@, call)]

RECURSIVE BinaryLoop(_, _, _, _, _, _, _)
BinaryLoop(st, items, k, y_true, y_pred_proba, y_pred, sample_weight) ==
    IF k > Len(items) \/ st.exc # "none"
    THEN st
    ELSE BinaryLoop(BinaryStep(st, items[k], y_true, y_pred_proba, y_pred,
                               sample_weight),
                    items, k + 1, y_true, y_pred_proba, y_pred, sample_weight)

LoopStart == [scores |-> <<>>, warns |-> <<>>, calls |-> <<>>, exc |-> "none"]

\* lines 190-194
SeriesDtype(entries) ==
    IF \A k \in 1..Len(entries) : IsScalar(entries[k].value)
    THEN "float" ELSE "object"

\* the outcome of a call, from the loop state st the loop ended in: exc = "none"
\* and the returned series (lines 190-195, line 224), or the exception that left
\* the function, with the warnings emitted and the metric calls made
LoopResult(st) ==
    [exc    |-> st.exc,
     series |-> IF st.exc = "none"
                THEN Series(st.scores, SeriesDtype(st.scores))
                ELSE EmptySeries,
     warns  |-> st.warns,
     calls  |-> st.calls]

score_binary_prediction(y_true, y_pred_proba, y_pred, sample_weight, metrics_to_evaluate, only_numeric_metric) ==
    CHOOSE out \in
      { LoopResult(st) :
          st \in { BinaryLoop(LoopStart,
                              BinaryMetricSet(metrics_to_evaluate, only_numeric_metric),
                              1, y_true, y_pred_proba, y_pred, sample_weight) } } : TRUE

(***************************************************************************)
(* score_regression_prediction, metrics.py lines 198-224                   *)
(***************************************************************************)
\* line 214: `metrics_to_evaluate or REGRESSION_METRICS`; an empty dict is falsy
RegressionMetricSet(metrics_to_evaluate) ==
    IF ~metrics_to_evaluate.some \/ Len(metrics_to_evaluate.v) = 0
    THEN REGRESSION_METRICS
    ELSE metrics_to_evaluate.v

\* a loop body without the try/except: every exception leaves the call
RegressionStep_NoCatch(st, item, y_true, y_pred, sample_weight) ==
    LET raised == MetricRaises(item.func, y_true, y_pred)
        call == Call(item.name, item.func, y_true, y_pred, sample_weight)
    IN  IF raised = "none"
        THEN [st EXCEPT
                !.scores = Append(@, [name |-> item.name,
                     value |-> MetricValue(item.func, y_true, y_pred, sample_weight)]),
                !.calls = Append(@, call)]
        ELSE [st EXCEPT !.exc = raised, !.calls = Append(@, call)]

\* one iteration of the loop of lines 216-223
RegressionStep(st, item, y_true, y_pred, sample_weight) ==
    LET raised == MetricRaises(item.func, y_true, y_pred)
        call == Call(item.name, item.func, y_true, y_pred, sample_weight)
    IN  IF raised = "none"
        THEN [st EXCEPT
                !.scores = Append(@, [name |-> item.name,
                     value |-> MetricValue(item.func, y_true, y_pred, sample_weight)]),
                !.calls = Append(@, call)]
        ELSE IF raised = "ValueError"
        THEN [st EXCEPT
                !.scores = Append(@, [name |-> item.name, value |-> NaN]),
                !.warns = Append(@, [metric |-> item.name, text |-> "While evaluating"]),
                !.calls = Append(@, call)]
        ELSE [st EXCEPT !.exc = raised, !.calls = Append(@, call)]

RECURSIVE RegressionLoop(_, _, _, _, _, _)
RegressionLoop(st, items, k, y_true, y_pred, sample_weight) ==
    IF k > Len(items) \/ st.exc # "none"
    THEN st
    ELSE RegressionLoop(RegressionStep(st, items[k], y_true, y_pred, sample_weight),
                        items, k + 1, y_true, y_pred, sample_weight)

\* line 224: pd.Series(metrics) infers the dtype from the values
score_regression_prediction(y_true, y_pred, sample_weight, metrics_to_evaluate) ==
    CHOOSE out \in
      { LoopResult(st) :
          st \in { RegressionLoop(LoopStart, RegressionMetricSet(metrics_to_evaluate),
                                  1, y_true, y_pred, sample_weight) } } : TRUE

(***************************************************************************)
(* Tables.  A pd.DataFrame is [kind, columns, names, index, data]: the     *)
(* column labels, the names of the index levels, one label per row (a      *)
(* tuple with one entry per index level) and one tuple of cells per row,   *)
(* aligned to the columns.  Labels of columns are tuples as well.          *)
(***************************************************************************)
DataFrame(columns, names, index, data) ==
    [kind |-> "DataFrame", columns |-> columns, names |-> names,
     index |-> index, data |-> data]

NoValue == [kind |-> "none"]

IsFrame(obj) == obj.kind = "DataFrame"

Position(s, x) == CHOOSE k \in 1..Len(s) : s[k] = x

RECURSIVE AppendNew(_, _, _)
\* acc followed by the entries of s, from the k-th on, that acc lacks
AppendNew(acc, s, k) ==
    IF k > Len(s) THEN acc
    ELSE AppendNew(IF s[k] \in Range(acc) THEN acc ELSE Append(acc, s[k]), s, k + 1)

RECURSIVE UnionColumns(_, _, _)
\* pd.concat joins the other axis outer: the union of the column labels
UnionColumns(acc, frames, k) ==
    IF k > Len(frames) THEN acc
    ELSE UnionColumns(AppendNew(acc, frames[k].columns, 1), frames, k + 1)

\* a row of frame spread over the columns cols; a missing cell is NaN
Reindexed(frame, r, cols) ==
    [c \in 1..Len(cols) |->
        IF cols[c] \in Range(frame.columns)
        THEN frame.data[r][Position(frame.columns, cols[c])]
        ELSE NaN]

RECURSIVE Flatten(_, _)
Flatten(seqs, k) == IF k > Len(seqs) THEN <<>> ELSE seqs[k] \o Flatten(seqs, k + 1)

\* a concatenation that numbers the rows anew instead of keeping their labels
pd_concat_IgnoreIndex(objs, keys, name) ==
    IF Len(objs) = 0
    THEN [exc |-> "ValueError", value |-> NoValue]
    ELSE IF \E k \in 1..Len(objs) : ~IsFrame(objs[k])
    THEN [exc |-> "TypeError", value |-> NoValue]
    ELSE LET cols == UnionColumns(<<>>, objs, 1)
             labels == [k \in 1..Len(objs) |->
                          [r \in 1..Len(objs[k].index) |->
                              <<keys[k]>> \o [n \in 1..Len(objs[k].index[r]) |->
                                                 IF n = Len(objs[k].index[r])
                                                 THEN r - 1 ELSE objs[k].index[r][n]]]]
             rows == [k \in 1..Len(objs) |->
                          [r \in 1..Len(objs[k].index) |-> Reindexed(objs[k], r, cols)]]
         IN  [exc |-> "none",
              value |-> DataFrame(cols, <<name>> \o objs[1].names,
                                  Flatten(labels, 1), Flatten(rows, 1))]

\* pd.concat(objs, axis="index", keys=keys, names=[name]): the rows of every
\* object in order, each label prefixed with the key of its object
pd_concat(objs, keys, name) ==
    IF Len(objs) = 0
    THEN [exc |-> "ValueError", value |-> NoValue]
    ELSE IF \E k \in 1..Len(objs) : ~IsFrame(objs[k])
    THEN [exc |-> "TypeError", value |-> NoValue]
    ELSE LET cols == UnionColumns(<<>>, objs, 1)
             labels == [k \in 1..Len(objs) |->
                          [r \in 1..Len(objs[k].index) |-> <<keys[k]>> \o objs[k].index[r]]]
             rows == [k \in 1..Len(objs) |->
                          [r \in 1..Len(objs[k].index) |-> Reindexed(objs[k], r, cols)]]
         IN  [exc |-> "none",
              value |-> DataFrame(cols, <<name>> \o objs[1].names,
                                  Flatten(labels, 1), Flatten(rows, 1))]

(***************************************************************************)
(* _combine_fold_scores, metrics.py lines 227-249.  the scores argument is a dict in    *)
(* insertion order: a sequence of [phase, folds].                          *)
(***************************************************************************)
\* per-phase concatenations whose fold keys count from 1
PhaseFrames_OneBased(scores_in) ==
    [k \in 1..Len(scores_in) |->
        pd_concat(scores_in[k].folds, [f \in 1..Len(scores_in[k].folds) |-> f], "fold")]

\* lines 241-246: the per-phase concatenations, keys = range(len(scores_fold))
PhaseFrames(scores_in) ==
    [k \in 1..Len(scores_in) |->
        pd_concat(scores_in[k].folds, [f \in 1..Len(scores_in[k].folds) |-> f - 1], "fold")]

_combine_fold_scores(scores_in) ==
    LET by_phase == PhaseFrames(scores_in)
        failed == {k \in 1..Len(scores_in) : by_phase[k].exc # "none"}
    IN  IF failed # {}
        THEN [exc |-> by_phase[CHOOSE k \in failed : \A j \in failed : k <= j].exc,
              value |-> NoValue]
        ELSE pd_concat([k \in 1..Len(scores_in) |-> by_phase[k].value],
                       [k \in 1..Len(scores_in) |-> scores_in[k].phase], "phase")

(***************************************************************************)
(* _combine_weight_evaluator_fold_scores, metrics.py lines 16-41           *)
(***************************************************************************)
WeightEvaluatorScores(prediction_scores, covariate_balance) ==
    [kind |-> "WeightEvaluatorScores", prediction_scores |-> prediction_scores,
     covariate_balance |-> covariate_balance]

IsWeightEvaluatorScores(obj) == obj.kind = "WeightEvaluatorScores"

\* lines 23-26
prediction_scores_unfolded(scores_in) ==
    [k \in 1..Len(scores_in) |->
        [phase |-> scores_in[k].phase,
         folds |-> [f \in 1..Len(scores_in[k].folds) |-> scores_in[k].folds[f].prediction_scores]]]

\* an extraction that reads prediction_scores where covariate_balance is meant
covariate_balance_unfolded_Copied(scores_in) ==
    prediction_scores_unfolded(scores_in)

\* lines 29-32
covariate_balance_unfolded(scores_in) ==
    [k \in 1..Len(scores_in) |->
        [phase |-> scores_in[k].phase,
         folds |-> [f \in 1..Len(scores_in[k].folds) |-> scores_in[k].folds[f].covariate_balance]]]

\* reading .prediction_scores of a fold score that is a DataFrame raises
\* AttributeError (line 24)
_combine_weight_evaluator_fold_scores(scores_in) ==
    IF \E k \in 1..Len(scores_in) : \E f \in 1..Len(scores_in[k].folds) :
           ~IsWeightEvaluatorScores(scores_in[k].folds[f])
    THEN [exc |-> "AttributeError", value |-> NoValue]
    ELSE LET prediction_scores == _combine_fold_scores(prediction_scores_unfolded(scores_in))
             covariate_balance == _combine_fold_scores(covariate_balance_unfolded(scores_in))
         IN  IF prediction_scores.exc # "none"
             THEN [exc |-> prediction_scores.exc, value |-> NoValue]
             ELSE IF covariate_balance.exc # "none"
             THEN [exc |-> covariate_balance.exc, value |-> NoValue]
             ELSE [exc |-> "none",
                   value |-> WeightEvaluatorScores(prediction_scores.value,
                                                   covariate_balance.value)]

(***************************************************************************)
(* Covariate balance, metrics.py lines 289-359.  X is [columns, data] with *)
(* one vector per covariate; a distance is kept as the term that records   *)
(* the metric and the two weighted samples it was applied to.              *)
(***************************************************************************)
Masked(x, mask) == SelectSeq([k \in 1..Len(x) |-> [keep |-> mask[k], v |-> x[k]]],
                             LAMBDA e : e.keep)

Values(entries) == [k \in 1..Len(entries) |-> entries[k].v]

RECURSIVE Sum(_)
Sum(s) == IF s = <<>> THEN 0 ELSE Head(s) + Sum(Tail(s))

\* sum of w[k] * x[k]
WeightedSum(x, w) == Sum([k \in 1..Len(x) |-> w[k] * x[k]])

AbsoluteValue(n) == IF n < 0 THEN -n ELSE n

\* a distance num / (scale * sqrt(spread)) kept exact: scale and spread do
\* not change when the two samples are exchanged
DistanceOf(num, scale, spread) ==
    [kind |-> "distance", num |-> num, scale |-> scale, spread |-> spread]

\* the standardized difference of the weighted means of x and y,
\*     (avg(x, wx) - avg(y, wy)) / sqrt(var(x) + var(y)),
\* over the common denominators; not a number when a sample is empty, the
\* weights of a sample sum to zero or both samples are constant
calc_weighted_standardized_mean_differences(x, y, wx, wy) ==
    IF Len(x) = 0 \/ Len(y) = 0 \/ Sum(wx) = 0 \/ Sum(wy) = 0
    THEN NaN
    ELSE LET nx == Len(x)
             ny == Len(y)
             sq(v) == [k \in 1..Len(v) |-> v[k] * v[k]]
             spread == ny * ny * (nx * Sum(sq(x)) - Sum(x) * Sum(x))
                       + nx * nx * (ny * Sum(sq(y)) - Sum(y) * Sum(y))
         IN  IF spread = 0 THEN NaN
             ELSE DistanceOf(WeightedSum(x, wx) * Sum(wy) - WeightedSum(y, wy) * Sum(wx),
                             Sum(wx) * Sum(wy), spread)

\* the weighted mass of the sample at or below t
MassBelow(x, w, t) == Sum([k \in 1..Len(x) |-> IF x[k] <= t THEN w[k] ELSE 0])

\* the weighted two-sample Kolmogorov-Smirnov statistic: the largest gap
\* between the weighted empirical distribution functions of x and y
calc_weighted_ks2samp(x, y, wx, wy) ==
    IF Len(x) = 0 \/ Len(y) = 0 \/ Sum(wx) = 0 \/ Sum(wy) = 0
    THEN NaN
    ELSE LET gaps == { AbsoluteValue(MassBelow(x, wx, t) * Sum(wy)
                                     - MassBelow(y, wy, t) * Sum(wx)) :
                         t \in Range(x) \cup Range(y) }
         IN  DistanceOf(CHOOSE g \in gaps : \A h \in gaps : h <= g,
                        Sum(wx) * Sum(wy), 1)

\* abs() of a distance
AbsoluteDistance(d) ==
    IF d = NaN THEN NaN ELSE DistanceOf(AbsoluteValue(d.num), d.scale, d.spread)

DistanceKeys == {"smd", "abs_smd", "ks"}

\* lines 278-286, applied: a callable given in place of a key is kept as the
\* term of its application
DISTRIBUTION_DISTANCE_METRICS(metric, x, y, wx, wy) ==
    CASE metric = "smd" -> calc_weighted_standardized_mean_differences(x, y, wx, wy)
      [] metric = "abs_smd" ->
             AbsoluteDistance(calc_weighted_standardized_mean_differences(x, y, wx, wy))
      [] metric = "ks" -> calc_weighted_ks2samp(x, y, wx, wy)
      [] OTHER -> [kind |-> "term", metric |-> metric, x |-> x, y |-> y,
                   wx |-> wx, wy |-> wy]

\* a distance of the group against every sample instead of against the rest
calculate_distribution_distance_for_single_feature_VersusAll(x, w, a, group_level, metric) ==
    LET cur_treated_mask == [k \in 1..Len(a) |-> a[k] = group_level]
    IN  DISTRIBUTION_DISTANCE_METRICS(metric,
            Values(Masked(x, cur_treated_mask)), x,
            Values(Masked(w, cur_treated_mask)), w)

\* lines 351-359
calculate_distribution_distance_for_single_feature(x, w, a, group_level, metric) ==
    LET cur_treated_mask == [k \in 1..Len(a) |-> a[k] = group_level]
        rest_mask == [k \in 1..Len(a) |-> ~cur_treated_mask[k]]
    IN  DISTRIBUTION_DISTANCE_METRICS(metric,
            Values(Masked(x, cur_treated_mask)), Values(Masked(x, rest_mask)),
            Values(Masked(w, cur_treated_mask)), Values(Masked(w, rest_mask)))

RECURSIVE SortedSeq(_)
\* np.sort(np.unique(a)), line 304
SortedSeq(S) ==
    IF S = {} THEN <<>>
    ELSE LET m == CHOOSE m \in S : \A z \in S : m <= z
         IN  <<m>> \o SortedSeq(S \ {m})

\* a row whose unweighted distance is computed with the supplied weights
BalanceRow_Weighted(x, w, a, treatment_value, metric) ==
    << calculate_distribution_distance_for_single_feature(x, w, a, treatment_value, metric),
       calculate_distribution_distance_for_single_feature(x, w, a, treatment_value, metric) >>

\* lines 310-319: the row of one covariate for one treatment value
BalanceRow(x, w, a, treatment_value, metric) ==
    << calculate_distribution_distance_for_single_feature(x, w, a, treatment_value, metric),
       calculate_distribution_distance_for_single_feature(
           x, [k \in 1..Len(w) |-> 1], a, treatment_value, metric) >>

\* lines 304-321: results, the table of every treatment value in sorted order
BalanceByLevel(X, a, w, metric) ==
    LET treatment_values == SortedSeq(Range(a))
    IN  [t \in 1..Len(treatment_values) |->
            [treatment_value |-> treatment_values[t],
             table |-> DataFrame(<< <<"weighted">>, <<"unweighted">> >>, <<"covariate">>,
                                 [c \in 1..Len(X.columns) |-> <<X.columns[c]>>],
                                 [c \in 1..Len(X.columns) |->
                                     BalanceRow(X.data[c], w, a, treatment_values[t],
                                                metric)])]]

\* a selection that keeps the table of the minimum of two treatment values
KeptLevels_Minimum(results) ==
    IF Len(results) = 2 THEN <<results[1]>> ELSE results

\* lines 326-330: with two treatment values only the table of the maximum stays
KeptLevels(results) ==
    IF Len(results) = 2 THEN <<results[2]>> ELSE results

\* lines 322-331: the tables side by side, the columns labelled with the
\* treatment value unless xs took that level away
calculate_covariate_balance(X, a, w, metric) ==
    LET results == BalanceByLevel(X, a, w, metric)
        kept == KeptLevels(results)
        columns == IF Len(results) = 2
                   THEN << <<"weighted">>, <<"unweighted">> >>
                   ELSE Flatten([t \in 1..Len(kept) |->
                                   << <<kept[t].treatment_value, "weighted">>,
                                      <<kept[t].treatment_value, "unweighted">> >>], 1)
    IN  DataFrame(columns, <<"covariate">>,
                  [c \in 1..Len(X.columns) |-> <<X.columns[c]>>],
                  [c \in 1..Len(X.columns) |->
                      Flatten([t \in 1..Len(kept) |-> kept[t].table.data[c]], 1)])

(***************************************************************************)
(* Prediction bundles and score_estimation, weight_evaluator.py lines      *)
(* 36-79 and 171-202, metrics.py lines 252-270                             *)
(***************************************************************************)
\* the classes a bundle is an instance of
Bases(type) ==
    CASE type = "PropensityEvaluatorPredictions" ->
             {"PropensityEvaluatorPredictions", "WeightEvaluatorPredictions"}
      [] type = "PropensityEvaluatorPredictions2" ->
             {"PropensityEvaluatorPredictions2", "WeightEvaluatorPredictions2"}
      [] OTHER -> {type}

isinstance(obj, classes) == Bases(obj.type) \cap classes # {}

\* pd.DataFrame(series).T: one row, labelled 0, one column per entry
RowFrame(series) ==
    DataFrame([k \in 1..Len(series.index) |-> <<series.index[k]>>], <<"">>,
              << <<0>> >>, << series.data >>)

\* a calculate_metrics that balances with the weights for being treated
WeightEvaluatorPredictions_calculate_metrics_TreatedWeights(self, X, a_true, metrics_to_evaluate) ==
    CHOOSE out \in
      { [exc   |-> r.exc,
         value |-> IF r.exc # "none" THEN NoValue
                   ELSE WeightEvaluatorScores(
                            RowFrame(r.series),
                            calculate_covariate_balance(
                                X, a_true, self.weight_for_being_treated, "abs_smd")),
         warns |-> r.warns] :
          r \in { score_binary_prediction(
                      a_true, Some(self.weight_for_being_treated),
                      Some(self.treatment_assignment_pred), None,
                      metrics_to_evaluate, TRUE) } } : TRUE

\* WeightEvaluatorPredictions.calculate_metrics, weight_evaluator.py lines 65-79
WeightEvaluatorPredictions_calculate_metrics(self, X, a_true, metrics_to_evaluate) ==
    CHOOSE out \in
      { [exc   |-> r.exc,
         value |-> IF r.exc # "none" THEN NoValue
                   ELSE WeightEvaluatorScores(
                            RowFrame(r.series),
                            calculate_covariate_balance(
                                X, a_true, self.weight_by_treatment_assignment, "abs_smd")),
         warns |-> r.warns] :
          r \in { score_binary_prediction(
                      a_true, Some(self.weight_for_being_treated),
                      Some(self.treatment_assignment_pred), None,
                      metrics_to_evaluate, TRUE) } } : TRUE

\* OutcomeEvaluatorPredictions.calculate_metrics: for each sample the
\* prediction of the arm it was assigned to, scored against the true outcome
\* as a regression or, when the bundle is flagged binary, as a classification
OutcomeEvaluatorPredictions_calculate_metrics(self, a_true, y_true, metrics_to_evaluate) ==
    LET factual == [k \in 1..Len(a_true) |-> self.prediction[a_true[k]][k]]
    IN  CHOOSE out \in
          { [exc   |-> r.exc,
             value |-> IF r.exc # "none" THEN NoValue ELSE RowFrame(r.series),
             warns |-> r.warns] :
              r \in { IF self.is_binary_outcome
                      THEN score_binary_prediction(y_true, Some(factual), Some(factual),
                                                   None, metrics_to_evaluate, TRUE)
                      ELSE score_regression_prediction(y_true, factual, None,
                                                       metrics_to_evaluate) } } : TRUE

\* a dispatch that accepts the weight class itself and not its subclasses
Dispatch_ExactWeightOnly(prediction, X, a_true, y_true, metrics_to_evaluate) ==
    IF prediction.type = "OutcomeEvaluatorPredictions"
    THEN [branch |-> "outcome", self |-> prediction, a_true |-> a_true,
          y_true |-> y_true, metrics_to_evaluate |-> metrics_to_evaluate]
    ELSE IF prediction.type = "WeightEvaluatorPredictions"
    THEN [branch |-> "weight", self |-> prediction, X |-> X, a_true |-> a_true,
          metrics_to_evaluate |-> metrics_to_evaluate]
    ELSE [branch |-> "invalid", type |-> prediction.type]

\* the branch score_estimation takes and what it forwards, lines 257-270
Dispatch(prediction, X, a_true, y_true, metrics_to_evaluate) ==
    IF isinstance(prediction, {"OutcomeEvaluatorPredictions"})
    THEN [branch |-> "outcome", self |-> prediction, a_true |-> a_true,
          y_true |-> y_true, metrics_to_evaluate |-> metrics_to_evaluate]
    ELSE IF isinstance(prediction, {"PropensityEvaluatorPredictions",
                                    "WeightEvaluatorPredictions"})
    THEN [branch |-> "weight", self |-> prediction, X |-> X, a_true |-> a_true,
          metrics_to_evaluate |-> metrics_to_evaluate]
    ELSE [branch |-> "invalid", type |-> prediction.type]

\* what the branch taken answers; the error of line 270 names the type
Forward(d) ==
    IF d.branch = "outcome"
    THEN OutcomeEvaluatorPredictions_calculate_metrics(
             d.self, d.a_true, d.y_true, d.metrics_to_evaluate)
    ELSE IF d.branch = "weight"
    THEN WeightEvaluatorPredictions_calculate_metrics(
             d.self, d.X, d.a_true, d.metrics_to_evaluate)
    ELSE [exc |-> "ValueError", value |-> NoValue, warns |-> <<>>]

score_estimation(prediction, X, a_true, y_true, metrics_to_evaluate) ==
    CHOOSE out \in
      { [exc |-> dr[2].exc, value |-> dr[2].value, warns |-> dr[2].warns,
         dispatch |-> dr[1],
         message |-> IF dr[1].branch = "invalid" THEN dr[1].type ELSE ""] :
          dr \in { <<d, Forward(d)>> :
                     d \in {Dispatch(prediction, X, a_true, y_true,
                                     metrics_to_evaluate)} } } : TRUE

(***************************************************************************)
(* score_cv, metrics.py lines 79-129.  Sample positions count from 1; the  *)
(* fold counter i counts from 0 as in the code.                            *)
(***************************************************************************)
\* vector.iloc[idx]
iloc(vector, idx) == [k \in 1..Len(idx) |-> vector[idx[k]]]

\* X.iloc[idx]
iloc_frame(X, idx) ==
    [columns |-> X.columns,
     data |-> [c \in 1..Len(X.columns) |-> iloc(X.data[c], idx)]]

DataPhases == {"train", "valid"}

\* slices that take the validation indices for every phase
FoldData_AlwaysValid(X, a, y, fold, phase) ==
    [X |-> iloc_frame(X, fold.valid), a |-> iloc(a, fold.valid),
     y |-> iloc(y, fold.valid)]

\* lines 100-111: the slices of one fold for one phase
FoldData(X, a, y, fold, phase) ==
    LET idx == IF phase = "train" THEN fold.train ELSE fold.valid
    IN  [X |-> iloc_frame(X, idx), a |-> iloc(a, idx), y |-> iloc(y, idx)]

Unbound == [kind |-> "unbound"]

\* lines 122-125 once score_estimation has answered r: what it raised leaves
\* score_cv, what it returned is appended to the list of the phase
PhaseScored(st, k, fold_no, prediction, data, r) ==
    LET entry == [fold |-> fold_no, phase |-> st.scores[k].phase,
                  prediction |-> prediction,
                  X |-> data.X, a |-> data.a, y |-> data.y, dispatch |-> r.dispatch]
    IN  IF r.exc # "none"
        THEN [st EXCEPT !.exc = r.exc, !.message = r.message,
                        !.calls = Append(@, entry), !.warns = @ \o r.warns]
        ELSE [st EXCEPT !.fold_scores = r.value,
                        !.scores[k].folds = Append(@, r.value),
                        !.calls = Append(@, entry), !.warns = @ \o r.warns]

\* lines 114-125 for the phase at position k of the fold numbered fold_no:
\* data[phase] of an unknown phase raises KeyError and predictions[phase][i]
\* past the end of the list raises IndexError
PhaseStep(st, a_in, k, fold_no) ==
    LET phase == a_in.predictions[k].phase
        preds == a_in.predictions[k].folds
    IN  IF phase \notin DataPhases
        THEN [st EXCEPT !.exc = "KeyError"]
        ELSE IF fold_no + 1 > Len(preds)
        THEN [st EXCEPT !.exc = "IndexError"]
        ELSE CHOOSE out \in
               { PhaseScored(st, k, fold_no, preds[fold_no + 1], dr[1], dr[2]) :
                   dr \in { <<d, score_estimation(preds[fold_no + 1], d.X, d.a, d.y,
                                                  a_in.metrics_to_evaluate)>> :
                              d \in {FoldData(a_in.X, a_in.a, a_in.y,
                                              a_in.cv[fold_no + 1], phase)} } } : TRUE

RECURSIVE PhaseLoop(_, _, _, _)
\* the inner loop of lines 114-125
PhaseLoop(st, a_in, k, fold_no) ==
    IF k > Len(a_in.predictions) \/ st.exc # "none"
    THEN st
    ELSE PhaseLoop(PhaseStep(st, a_in, k, fold_no), a_in, k + 1, fold_no)

\* an aggregation without the isinstance test of line 127
Aggregate_AlwaysPlain(last_fold_scores, scores_in) ==
    IF last_fold_scores = Unbound
    THEN [exc |-> "UnboundLocalError", value |-> NoValue]
    ELSE _combine_fold_scores(scores_in)

\* lines 127-129
Aggregate(last_fold_scores, scores_in) ==
    IF last_fold_scores = Unbound
    THEN [exc |-> "UnboundLocalError", value |-> NoValue]
    ELSE IF IsWeightEvaluatorScores(last_fold_scores)
    THEN _combine_weight_evaluator_fold_scores(scores_in)
    ELSE _combine_fold_scores(scores_in)

(***************************************************************************)
(* Inputs of the scoring calls                                             *)
(***************************************************************************)
\* true-label vectors: all zeros, all ones, both classes
TrueVectors ==
    { [k \in 1..NSamples |-> 0], [k \in 1..NSamples |-> 1],
      [k \in 1..NSamples |-> k % 2] }

\* continuous scores (in percent), never equal to a label vector
ProbaVectors == { [k \in 1..NSamples |-> 10 * k + 5] }

\* label predictions; the negative one is a regression prediction msle rejects
LabelVectors == { [k \in 1..NSamples |-> (k + 1) % 2] }
RegressionVectors == LabelVectors \cup { [k \in 1..NSamples |-> 0 - k] }

WeightVectors == { [k \in 1..NSamples |-> k] }

Optional(S) == {None} \cup {Some(x) : x \in S}

\* names a caller may give its metrics: routed to the labels, routed to the
\* continuous score, and a name of no registry
CustomNames == {"accuracy", "roc_auc", "my_metric"}

CustomItems == [name : CustomNames, func : UserCallables]

CustomDicts == {d \in SeqsUpTo(CustomItems, MaxMetrics) : IsDict(d)}

MetricSets == Optional(CustomDicts)

idleCV == /\ pc = "idle" /\ i = 0
          /\ scores = <<>> /\ fold_scores = <<>>

NoReturn == [exc |-> "none", kind |-> "none"]

(***************************************************************************)
(* Specification of the scoring calls: each action is one whole call, made *)
(* from the state before any call (the calls share no state)               *)
(***************************************************************************)
InitScore ==
    /\ op = "none"
    /\ args = [y_true |-> <<>>]
    /\ ret = [exc |-> "none", series |-> EmptySeries]
    /\ warns = <<>>
    /\ calls = <<>>
    /\ idleCV

CallScoreBinary ==
    /\ op = "none"
    /\ \E y_true \in TrueVectors, y_pred_proba \in Optional(ProbaVectors),
       y_pred \in Optional(LabelVectors), sample_weight \in Optional(WeightVectors),
       metrics_to_evaluate \in MetricSets, only_numeric_metric \in BOOLEAN :
        \E r \in { score_binary_prediction(y_true, y_pred_proba, y_pred, sample_weight,
                                           metrics_to_evaluate, only_numeric_metric) } :
            /\ op' = "score_binary_prediction"
            /\ args' = [y_true |-> y_true, y_pred_proba |-> y_pred_proba,
                        y_pred |-> y_pred, sample_weight |-> sample_weight,
                        metrics_to_evaluate |-> metrics_to_evaluate,
                        only_numeric_metric |-> only_numeric_metric]
            /\ ret' = [exc |-> r.exc, series |-> r.series]
            /\ warns' = r.warns
            /\ calls' = r.calls
            /\ UNCHANGED <<pc, i, scores, fold_scores>>

CallScoreRegression ==
    /\ op = "none"
    /\ \E y_true \in TrueVectors, y_pred \in RegressionVectors,
       sample_weight \in Optional(WeightVectors), metrics_to_evaluate \in MetricSets :
        \E r \in { score_regression_prediction(y_true, y_pred, sample_weight,
                                               metrics_to_evaluate) } :
            /\ op' = "score_regression_prediction"
            /\ args' = [y_true |-> y_true, y_pred |-> y_pred,
                        sample_weight |-> sample_weight,
                        metrics_to_evaluate |-> metrics_to_evaluate]
            /\ ret' = [exc |-> r.exc, series |-> r.series]
            /\ warns' = r.warns
            /\ calls' = r.calls
            /\ UNCHANGED <<pc, i, scores, fold_scores>>

NextScore == CallScoreBinary \/ CallScoreRegression

SpecScore == InitScore /\ [][NextScore]_vars

(***************************************************************************)
(* Inputs of score_cv                                                      *)
(***************************************************************************)
Half == NSamples \div 2

\* the two folds of a two-fold split of the samples 1..NSamples
Folds ==
    { [train |-> [k \in 1..Half |-> k],
       valid |-> [k \in 1..(NSamples - Half) |-> Half + k]],
      [train |-> [k \in 1..(NSamples - Half) |-> Half + k],
       valid |-> [k \in 1..Half |-> k]] }

\* treatment assignments: both levels in every slice, or one level per slice
TreatmentVectors ==
    { [k \in 1..NSamples |-> k % 2],
      [k \in 1..NSamples |-> IF k <= Half THEN 0 ELSE 1] }

CovariateNames == <<"x1", "x2", "x3", "x4">>

Covariates(n) ==
    [columns |-> SubSeq(CovariateNames, 1, n),
     data |-> [c \in 1..n |-> [k \in 1..NSamples |-> c * k]]]

CovariateFrames == {Covariates(1), Covariates(MaxCov)}

Outcomes == { [k \in 1..NSamples |-> k] }

BundleTypes ==
    {"OutcomeEvaluatorPredictions", "WeightEvaluatorPredictions",
     "PropensityEvaluatorPredictions", "WeightEvaluatorPredictions2",
     "PropensityEvaluatorPredictions2"}

\* what a predictor of the given kind holds for the samples labels
Bundle(type, labels) ==
    CASE type = "OutcomeEvaluatorPredictions" ->
           [type |-> type,
            prediction |-> [t \in {0, 1} |->
                              [k \in 1..Len(labels) |-> 100 * t + labels[k]]],
            is_binary_outcome |-> FALSE]
      [] type = "WeightEvaluatorPredictions" ->
           [type |-> type,
            weight_by_treatment_assignment |-> [k \in 1..Len(labels) |-> labels[k]],
            weight_for_being_treated |-> [k \in 1..Len(labels) |-> 10 * labels[k] + 5],
            treatment_assignment_pred |-> [k \in 1..Len(labels) |-> (labels[k] + 1) % 2]]
      [] type = "PropensityEvaluatorPredictions" ->
           [type |-> type,
            weight_by_treatment_assignment |-> [k \in 1..Len(labels) |-> labels[k]],
            weight_for_being_treated |-> [k \in 1..Len(labels) |-> 10 * labels[k] + 5],
            treatment_assignment_pred |-> [k \in 1..Len(labels) |-> (labels[k] + 1) % 2],
            propensity |-> [k \in 1..Len(labels) |-> 50],
            propensity_by_treatment_assignment |-> [k \in 1..Len(labels) |-> 50]]
      [] OTHER ->
           [type |-> type,
            treatment_assignment_prediction |->
                [k \in 1..Len(labels) |-> (labels[k] + 1) % 2]]

\* the orders of the keys of predictions
PhaseOrders ==
    { <<>>, <<"train">>, <<"valid">>, <<"train", "valid">>, <<"valid", "train">>,
      <<"train", "test">> }

\* predictions: per phase one bundle per fold, of the type chosen for the fold
Predictions(phases, types, cv) ==
    [k \in 1..Len(phases) |->
        [phase |-> phases[k],
         folds |-> [f \in 1..Len(types) |->
                      Bundle(types[f], IF phases[k] = "train" THEN cv[f].train
                                       ELSE cv[f].valid)]]]

CVMetricSets == {None, Some(<< [name |-> "my_metric", func |-> "user_scalar"] >>)}

(***************************************************************************)
(* Specification of score_cv: a call starts, processes one fold per step   *)
(* and aggregates                                                          *)
(***************************************************************************)
InitCV ==
    /\ op = "none"
    /\ args = [cv |-> <<>>]
    /\ ret = [exc |-> "none", value |-> NoValue, message |-> ""]
    /\ warns = <<>>
    /\ calls = <<>>
    /\ pc = "idle"
    /\ i = 0
    /\ scores = <<>>
    /\ fold_scores = Unbound

\* lines 97-98; the predictions hold a bundle for every fold, or miss the last
CVStart ==
    /\ pc = "idle"
    /\ \E cv \in SeqsUpTo(Folds, MaxFolds), phases \in PhaseOrders,
          X \in CovariateFrames, a \in TreatmentVectors, y \in Outcomes,
          metrics_to_evaluate \in CVMetricSets :
        \E n \in {Len(cv), Len(cv) - 1} \cap Nat :
        \E types \in [1..n -> BundleTypes] :
            /\ args' = [predictions |-> Predictions(phases, types, cv),
                        X |-> X, a |-> a, y |-> y, cv |-> cv,
                        metrics_to_evaluate |-> metrics_to_evaluate]
            /\ scores' = [k \in 1..Len(phases) |-> [phase |-> phases[k], folds |-> <<>>]]
    /\ op' = "score_cv"
    /\ pc' = "loop"
    /\ UNCHANGED <<ret, warns, calls, i, fold_scores>>

\* lines 99-125: one iteration of the loop over the folds
CVFold ==
    /\ pc = "loop"
    /\ i < Len(args.cv)
    /\ \E st \in { PhaseLoop([scores |-> scores, fold_scores |-> fold_scores,
                              exc |-> "none", message |-> "", calls |-> calls,
                              warns |-> warns],
                             args, 1, i) } :
           /\ scores' = st.scores
           /\ fold_scores' = st.fold_scores
           /\ calls' = st.calls
           /\ warns' = st.warns
           /\ IF st.exc = "none"
              THEN /\ i' = i + 1
                   /\ UNCHANGED <<pc, ret>>
              ELSE /\ pc' = "raised"
                   /\ ret' = [exc |-> st.exc, value |-> NoValue, message |-> st.message]
                   /\ UNCHANGED i
    /\ UNCHANGED <<op, args>>

\* lines 127-129
CVCombine ==
    /\ pc = "loop"
    /\ i = Len(args.cv)
    /\ \E r \in { Aggregate(fold_scores, scores) } :
           /\ ret' = [exc |-> r.exc, value |-> r.value, message |-> ""]
           /\ pc' = IF r.exc = "none" THEN "done" ELSE "raised"
    /\ UNCHANGED <<op, args, warns, calls, i, scores, fold_scores>>

NextCV == CVStart \/ CVFold \/ CVCombine

SpecCV == InitCV /\ [][NextCV]_vars

(***************************************************************************)
(* Inputs of the combiners: score tables of one or two rows over one or    *)
(* two metric columns; a cell records the table, row and column it is from *)
(***************************************************************************)
Cell(tag, r, c) ==
    [kind |-> "scalar", func |-> "cell", y_true |-> <<tag, r, c>>, pred |-> <<>>,
     sw |-> None]

Table(tag, nrows, columns) ==
    DataFrame(columns, <<"stratum">>,
              [r \in 1..nrows |-> <<10 * tag + r>>],
              [r \in 1..nrows |-> [c \in 1..Len(columns) |-> Cell(tag, r, c)]])

ScoreTables ==
    { Table(1, 1, << <<"mae">>, <<"mse">> >>),
      Table(2, 2, << <<"mae">>, <<"mse">> >>),
      Table(3, 2, << <<"mse">>, <<"r2">> >>) }

ScorePairs ==
    { WeightEvaluatorScores(Table(1, 1, << <<"mae">>, <<"mse">> >>),
                            Table(2, 2, << <<"mae">>, <<"mse">> >>)),
      WeightEvaluatorScores(Table(2, 2, << <<"mae">>, <<"mse">> >>),
                            Table(3, 2, << <<"mse">>, <<"r2">> >>)) }

CombinePhaseOrders ==
    { <<>>, <<"train">>, <<"valid">>, <<"train", "valid">>, <<"valid", "train">> }

\* dicts phase -> list of fold scores drawn from S
ScoreDicts(S) ==
    UNION { { [k \in 1..Len(phases) |-> [phase |-> phases[k], folds |-> lists[k]]] :
                lists \in [1..Len(phases) -> SeqsUpTo(S, MaxFolds)] } :
            phases \in CombinePhaseOrders }

(***************************************************************************)
(* Specification of the combiners: each action is one whole call           *)
(***************************************************************************)
InitCombine ==
    /\ op = "none"
    /\ args = [scores |-> <<>>]
    /\ ret = [exc |-> "none", value |-> NoValue]
    /\ warns = <<>>
    /\ calls = <<>>
    /\ idleCV

CallCombineFoldScores ==
    /\ op = "none"
    /\ \E scores_in \in ScoreDicts(ScoreTables) :
        \E r \in { _combine_fold_scores(scores_in) } :
            /\ op' = "_combine_fold_scores"
            /\ args' = [scores |-> scores_in]
            /\ ret' = r
    /\ UNCHANGED <<warns, calls, pc, i, scores, fold_scores>>

CallCombineWeightEvaluatorFoldScores ==
    /\ op = "none"
    /\ \E scores_in \in ScoreDicts(ScorePairs) :
        \E r \in { _combine_weight_evaluator_fold_scores(scores_in) } :
            /\ op' = "_combine_weight_evaluator_fold_scores"
            /\ args' = [scores |-> scores_in]
            /\ ret' = r
    /\ UNCHANGED <<warns, calls, pc, i, scores, fold_scores>>

NextCombine == CallCombineFoldScores \/ CallCombineWeightEvaluatorFoldScores

SpecCombine == InitCombine /\ [][NextCombine]_vars

(***************************************************************************)
(* Inputs of calculate_covariate_balance: treatment vectors of one, two    *)
(* and three levels, weights that are uniform or not, one or more          *)
(* covariates, a registry key or a callable as the metric                  *)
(***************************************************************************)
TreatmentPeriod == 4

\* every assignment of three levels to TreatmentPeriod samples, repeated over
\* the samples
BalanceTreatments ==
    { [k \in 1..NSamples |-> base[((k - 1) % TreatmentPeriod) + 1]] :
        base \in [1..TreatmentPeriod -> {0, 1, 2}] }

BalanceWeights ==
    { [k \in 1..NSamples |-> 1],
      [k \in 1..NSamples |-> k],
      [k \in 1..NSamples |-> IF k = 1 THEN 3 ELSE 1] }

BalanceCovariates(n) ==
    [columns |-> SubSeq(CovariateNames, 1, n),
     data |-> [c \in 1..n |-> [k \in 1..NSamples |-> (k * k + c * k) % 5]]]

BalanceFrames == {BalanceCovariates(1), BalanceCovariates(MaxCov)}

BalanceMetrics == DistanceKeys \cup {"user_distance"}

(***************************************************************************)
(* Specification of calculate_covariate_balance: the action is one whole   *)
(* call; calls keeps the per-level tables the call built on its way        *)
(***************************************************************************)
InitBalance ==
    /\ op = "none"
    /\ args = [metric |-> ""]
    /\ ret = [exc |-> "none", value |-> NoValue]
    /\ warns = <<>>
    /\ calls = <<>>
    /\ idleCV

CallCovariateBalance ==
    /\ op = "none"
    /\ \E X \in BalanceFrames, a \in BalanceTreatments, w \in BalanceWeights,
          metric \in BalanceMetrics :
        \E r \in { <<BalanceByLevel(X, a, w, metric),
                     calculate_covariate_balance(X, a, w, metric)>> } :
            /\ op' = "calculate_covariate_balance"
            /\ args' = [X |-> X, a |-> a, w |-> w, metric |-> metric]
            /\ calls' = <<[results |-> r[1]]>>
            /\ ret' = [exc |-> "none", value |-> r[2]]
    /\ UNCHANGED <<warns, pc, i, scores, fold_scores>>

NextBalance == CallCovariateBalance

SpecBalance == InitBalance /\ [][NextBalance]_vars

(***************************************************************************)
(* EvaluationResults.make, results.py lines 60-101.  models is a dict      *)
(* (a sequence of [phase, folds]), a list or one model; a model is known   *)
(* by its class, a prediction record by its is_binary_outcome flag.        *)
(***************************************************************************)
\* the estimator base classes a model is an instance of: every propensity
\* estimator is a weight estimator
EstimatorBases(type) ==
    CASE type = "IPW" -> {"PropensityEstimator", "WeightEstimator"}
      [] type = "AdversarialBalancing" -> {"WeightEstimator"}
      [] type = "Standardization" -> {"IndividualOutcomeEstimator"}
      [] OTHER -> {}

IsInstance(model, class) == class \in EstimatorBases(model.type)

ModelsDict(phases, folds) ==
    [kind |-> "dict", phases |-> phases, folds |-> folds, type |-> ""]

ModelsList(folds) ==
    [kind |-> "list", phases |-> <<>>, folds |-> folds, type |-> ""]

Model(type) == [kind |-> "model", phases |-> <<>>, folds |-> <<>>, type |-> type]

\* lines 74-79: models["train"][0], models[0] or models itself; a dict
\* without the key raises KeyError, an empty list IndexError
FirstFittedModel(models) ==
    IF models.kind = "dict" /\ "train" \notin Range(models.phases)
    THEN [exc |-> "KeyError", model |-> Model("")]
    ELSE IF models.kind \in {"dict", "list"}
    THEN IF Len(models.folds) = 0
         THEN [exc |-> "IndexError", model |-> Model("")]
         ELSE [exc |-> "none", model |-> models.folds[1]]
    ELSE [exc |-> "none", model |-> models]

\* a flag test that looks at the first phase only
AnyBinaryOutcome_FirstPhase(predictions) ==
    /\ Len(predictions) > 0
    /\ \E f \in 1..Len(predictions[1].folds) :
           predictions[1].folds[f].is_binary_outcome

\* lines 90-92: any(x and any(y.is_binary_outcome for y in x) for x in
\* predictions.values())
AnyBinaryOutcome(predictions) ==
    \E k \in 1..Len(predictions) :
        /\ Len(predictions[k].folds) > 0
        /\ \E f \in 1..Len(predictions[k].folds) :
               predictions[k].folds[f].is_binary_outcome

\* a selection that tests for a weight estimator before a propensity one
ResultVariant_WeightFirst(fitted_model, predictions) ==
    IF IsInstance(fitted_model, "WeightEstimator")
    THEN "WeightEvaluationResults"
    ELSE IF IsInstance(fitted_model, "PropensityEstimator")
    THEN "PropensityEvaluationResults"
    ELSE IF IsInstance(fitted_model, "IndividualOutcomeEstimator")
    THEN IF AnyBinaryOutcome(predictions)
         THEN "BinaryOutcomeEvaluationResults"
         ELSE "ContinuousOutcomeEvaluationResults"
    ELSE "ValueError"

\* lines 81-101: the class make instantiates, or the error it raises
ResultVariant(fitted_model, predictions) ==
    IF IsInstance(fitted_model, "PropensityEstimator")
    THEN "PropensityEvaluationResults"
    ELSE IF IsInstance(fitted_model, "WeightEstimator")
    THEN "WeightEvaluationResults"
    ELSE IF IsInstance(fitted_model, "IndividualOutcomeEstimator")
    THEN IF AnyBinaryOutcome(predictions)
         THEN "BinaryOutcomeEvaluationResults"
         ELSE "ContinuousOutcomeEvaluationResults"
    ELSE "ValueError"

make(evaluated_metrics, models, predictions, cv, X, a, y) ==
    LET first == FirstFittedModel(models)
        variant == ResultVariant(first.model, predictions)
    IN  IF first.exc # "none"
        THEN [exc |-> first.exc, value |-> NoValue, message |-> ""]
        ELSE IF variant = "ValueError"
        THEN [exc |-> "ValueError", value |-> NoValue, message |-> first.model.type]
        ELSE [exc |-> "none",
              value |-> [kind |-> variant, evaluated_metrics |-> evaluated_metrics,
                         models |-> models, predictions |-> predictions,
                         cv |-> cv, X |-> X, a |-> a, y |-> y],
              message |-> ""]

(***************************************************************************)
(* Inputs and specification of EvaluationResults.make                      *)
(***************************************************************************)
EstimatorTypes == {"IPW", "AdversarialBalancing", "Standardization", "LogisticRegression"}

FittedModels == { Model(t) : t \in EstimatorTypes }

ModelLists == SeqsUpTo(FittedModels, MaxFolds)

ModelsInputs ==
    FittedModels
    \cup { ModelsList(l) : l \in ModelLists }
    \cup { ModelsDict(phases, l) :
             phases \in {<<"train">>, <<"train", "valid">>, <<"valid">>},
             l \in ModelLists }

OutcomeRecords == { [is_binary_outcome |-> b] : b \in BOOLEAN }

PredictionDicts ==
    UNION { { [k \in 1..Len(phases) |-> [phase |-> phases[k], folds |-> lists[k]]] :
                lists \in [1..Len(phases) -> SeqsUpTo(OutcomeRecords, MaxFolds)] } :
            phases \in {<<>>, <<"train">>, <<"train", "valid">>} }

InitMake ==
    /\ op = "none"
    /\ args = [models |-> Model("")]
    /\ ret = [exc |-> "none", value |-> NoValue, message |-> ""]
    /\ warns = <<>>
    /\ calls = <<>>
    /\ idleCV

CallMake ==
    /\ op = "none"
    /\ \E models \in ModelsInputs, predictions \in PredictionDicts :
        \E r \in { make("evaluated_metrics", models, predictions, "cv", "X", "a", "y") } :
            /\ op' = "make"
            /\ args' = [models |-> models, predictions |-> predictions]
            /\ ret' = r
    /\ UNCHANGED <<warns, calls, pc, i, scores, fold_scores>>

NextMake == CallMake

SpecMake == InitMake /\ [][NextMake]_vars

(***************************************************************************)
(* Whole calls and what they leave of the caller's objects.  score_cv      *)
(* reads predictions through keys() and indexing and cv through enumerate  *)
(* and fills a dict of its own; the combiners bind the name scores to new  *)
(* dicts built by comprehensions.                                          *)
(***************************************************************************)
RECURSIVE FoldLoop(_, _, _)
\* the loop over the folds of lines 99-125
FoldLoop(st, a_in, fold_no) ==
    IF fold_no >= Len(a_in.cv) \/ st.exc # "none"
    THEN st
    ELSE CHOOSE out \in
           { FoldLoop(next, a_in, fold_no + 1) :
               next \in { PhaseLoop(st, a_in, 1, fold_no) } } : TRUE

\* score_cv as one call: what it raises or returns
score_cv(predictions, X, a, y, cv, metrics_to_evaluate) ==
    CHOOSE out \in
      { IF st.exc # "none"
        THEN [exc |-> st.exc, value |-> NoValue, message |-> st.message]
        ELSE CHOOSE res \in
               { [exc |-> r.exc, value |-> r.value, message |-> ""] :
                   r \in { Aggregate(st.fold_scores, st.scores) } } : TRUE :
          st \in { FoldLoop([scores |-> [k \in 1..Len(predictions) |->
                                           [phase |-> predictions[k].phase,
                                            folds |-> <<>>]],
                             fold_scores |-> Unbound, exc |-> "none", message |-> "",
                             calls |-> <<>>, warns |-> <<>>],
                            [predictions |-> predictions, X |-> X, a |-> a, y |-> y,
                             cv |-> cv, metrics_to_evaluate |-> metrics_to_evaluate],
                            0) } } : TRUE

\* a score_cv that takes each bundle off the front of its list
ArgumentsAfterScoreCV_Popped(predictions, cv) ==
    [predictions |-> [k \in 1..Len(predictions) |->
                        [phase |-> predictions[k].phase,
                         folds |-> IF Len(predictions[k].folds) = 0 THEN <<>>
                                   ELSE Tail(predictions[k].folds)]],
     cv |-> cv]

\* lines 97-125: the caller's predictions and cv once score_cv has ended
ArgumentsAfterScoreCV(predictions, cv) ==
    [predictions |-> predictions, cv |-> cv]

\* lines 23-32 and 241-248: the caller's mapping once a combiner has ended
ArgumentsAfterCombine(scores_in) == scores_in

(***************************************************************************)
(* Specification of repeated calls: a caller calls one operation on its    *)
(* objects and then calls it again on the objects as the first call left   *)
(* them; calls records every call                                          *)
(***************************************************************************)
MaxCalls == 2

InitPure ==
    /\ op = "none"
    /\ args = [cv |-> <<>>]
    /\ ret = [exc |-> "none", value |-> NoValue, message |-> ""]
    /\ warns = <<>>
    /\ calls = <<>>
    /\ idleCV

Recorded(name, before, after, r) ==
    /\ op' = name
    /\ args' = after
    /\ ret' = r
    /\ calls' = Append(calls, [before |-> before, after |-> after, ret |-> r])
    /\ UNCHANGED <<warns, pc, i, scores, fold_scores>>

\* score_cv on the caller's objects in
ScoreCVOn(in) ==
    \E r \in { score_cv(in.predictions, in.X, in.a, in.y, in.cv,
                        in.metrics_to_evaluate) } :
    \E left \in { ArgumentsAfterScoreCV(in.predictions, in.cv) } :
        Recorded("score_cv", in,
                 [in EXCEPT !.predictions = left.predictions, !.cv = left.cv], r)

\* the first call picks its arguments (one covariate, the default metrics),
\* a later call takes the objects as they are
PureScoreCV ==
    /\ op \in {"none", "score_cv"}
    /\ Len(calls) < MaxCalls
    /\ IF calls = <<>>
       THEN \E cv \in SeqsUpTo(Folds, MaxFolds), phases \in PhaseOrders,
               a \in TreatmentVectors, y \in Outcomes :
            \E n \in {Len(cv), Len(cv) - 1} \cap Nat :
            \E types \in [1..n -> BundleTypes] :
                ScoreCVOn([predictions |-> Predictions(phases, types, cv),
                           X |-> Covariates(1), a |-> a, y |-> y, cv |-> cv,
                           metrics_to_evaluate |-> None])
       ELSE ScoreCVOn(args)

PureCombineFoldScores ==
    /\ op \in {"none", "_combine_fold_scores"}
    /\ Len(calls) < MaxCalls
    /\ \E in \in (IF calls = <<>> THEN { [scores |-> d] : d \in ScoreDicts(ScoreTables) }
                  ELSE {args}) :
        \E r \in { _combine_fold_scores(in.scores) } :
            Recorded("_combine_fold_scores", in,
                     [scores |-> ArgumentsAfterCombine(in.scores)],
                     [exc |-> r.exc, value |-> r.value, message |-> ""])

PureCombineWeightEvaluatorFoldScores ==
    /\ op \in {"none", "_combine_weight_evaluator_fold_scores"}
    /\ Len(calls) < MaxCalls
    /\ \E in \in (IF calls = <<>> THEN { [scores |-> d] : d \in ScoreDicts(ScorePairs) }
                  ELSE {args}) :
        \E r \in { _combine_weight_evaluator_fold_scores(in.scores) } :
            Recorded("_combine_weight_evaluator_fold_scores", in,
                     [scores |-> ArgumentsAfterCombine(in.scores)],
                     [exc |-> r.exc, value |-> r.value, message |-> ""])

NextPure ==
    PureScoreCV \/ PureCombineFoldScores \/ PureCombineWeightEvaluatorFoldScores

SpecPure == InitPure /\ [][NextPure]_vars

(***************************************************************************)
(* calculate_performance_curve_data_on_folds, plots/helpers.py lines       *)
(* 154-213                                                                 *)
(***************************************************************************)
\* one of the three vectors curve_metric(fold_target, fold_prediction,
\* pos_label=pos_label, sample_weight=fold_weights) returns, line 194
CurveValue(curve_metric, part, fold_target, fold_prediction, pos_label, fold_weights) ==
    [kind |-> "vector", func |-> curve_metric, part |-> part, y_true |-> fold_target,
     pred |-> fold_prediction, pos_label |-> pos_label, sw |-> fold_weights]

\* lines 194-212 for one fold: only the ValueError of the area metric is
\* caught, two warnings are given and the area is NaN
CurveFoldStep(st, fold_prediction, fold_target, fold_weights, area_metric, curve_metric, pos_label) ==
    LET raised == MetricRaises(area_metric, fold_target, fold_prediction)
        area_fold == IF raised = "ValueError" THEN NaN
                     ELSE MetricValue(area_metric, fold_target, fold_prediction,
                                      fold_weights)
    IN  IF raised \notin {"none", "ValueError"}
        THEN [st EXCEPT !.exc = raised]
        ELSE [st EXCEPT
                !.first_ret_folds = Append(@, CurveValue(curve_metric, "first",
                                        fold_target, fold_prediction, pos_label,
                                        fold_weights)),
                !.second_ret_folds = Append(@, CurveValue(curve_metric, "second",
                                        fold_target, fold_prediction, pos_label,
                                        fold_weights)),
                !.threshold_folds = Append(@, CurveValue(curve_metric, "thresholds",
                                        fold_target, fold_prediction, pos_label,
                                        fold_weights)),
                !.area_folds = Append(@, area_fold),
                !.warns = @ \o IF raised = "ValueError"
                               THEN << [warning |-> "could not be evaluated",
                                        metric  |-> area_metric],
                                       [warning |-> "str(v)", metric |-> area_metric] >>
                               ELSE <<>>]

\* the length of zip(...): that of the shortest list
ZipLen(lists) ==
    CHOOSE n \in 0..Len(lists[1]) :
        /\ \A k \in 1..Len(lists) : n <= Len(lists[k])
        /\ \E k \in 1..Len(lists) : n = Len(lists[k])

RECURSIVE CurveLoop(_, _, _, _, _, _, _, _)
\* the loop of lines 191-212 from the fold at position f on
CurveLoop(st, f, folds_predictions, folds_targets, sample_weights, area_metric, curve_metric, pos_label) ==
    IF st.exc # "none"
         \/ f > ZipLen(<<folds_predictions, folds_targets, sample_weights>>)
    THEN st
    ELSE CurveLoop(CurveFoldStep(st, folds_predictions[f], folds_targets[f],
                                 sample_weights[f], area_metric, curve_metric,
                                 pos_label),
                   f + 1, folds_predictions, folds_targets, sample_weights,
                   area_metric, curve_metric, pos_label)

\* lines 180-182 and 190-213; the tuple returned is that of line 213
calculate_performance_curve_data_on_folds(folds_predictions, folds_targets, sample_weights, area_metric, curve_metric, pos_label) ==
    LET weights == IF sample_weights = None
                   THEN [k \in 1..Len(folds_predictions) |-> None]
                   ELSE [k \in 1..Len(sample_weights.v) |-> Some(sample_weights.v[k])]
    IN  CHOOSE out \in
          { [exc   |-> st.exc,
             value |-> IF st.exc # "none" THEN NoValue
                       ELSE << st.area_folds, st.first_ret_folds,
                               st.second_ret_folds, st.threshold_folds >>,
             warns |-> st.warns] :
              st \in { CurveLoop([first_ret_folds |-> <<>>, second_ret_folds |-> <<>>,
                                  threshold_folds |-> <<>>, area_folds |-> <<>>,
                                  exc |-> "none", warns |-> <<>>],
                                 1, folds_predictions, folds_targets, weights,
                                 area_metric, curve_metric, pos_label) } } : TRUE

(***************************************************************************)
(* Specification of the curve calculation: one whole call                  *)
(***************************************************************************)
\* the area metrics: the default, one that is defined on constant targets and
\* a callable that raises another error than ValueError
AreaMetrics == {"roc_auc_score", "average_precision_score", "user_type_error"}

CurveMetrics == {"roc_curve", "precision_recall_curve"}

InitCurve ==
    /\ op = "none"
    /\ args = [folds_targets |-> <<>>]
    /\ ret = [exc |-> "none", value |-> NoValue]
    /\ warns = <<>>
    /\ calls = <<>>
    /\ idleCV

CallPerformanceCurve ==
    /\ op = "none"
    /\ \E n \in 0..MaxFolds, area_metric \in AreaMetrics, curve_metric \in CurveMetrics,
          pos_label \in Optional({1}), weighted \in BOOLEAN :
        \E folds_targets \in [1..n -> TrueVectors] :
          LET folds_predictions == [f \in 1..n |-> [k \in 1..NSamples |-> 10 * k + f]]
              sample_weights == IF weighted
                                THEN Some([f \in 1..n |-> [k \in 1..NSamples |-> k + f]])
                                ELSE None
          IN  \E r \in { calculate_performance_curve_data_on_folds(
                             folds_predictions, folds_targets, sample_weights,
                             area_metric, curve_metric, pos_label) } :
                /\ args' = [folds_predictions |-> folds_predictions,
                            folds_targets |-> folds_targets,
                            sample_weights |-> sample_weights,
                            area_metric |-> area_metric,
                            curve_metric |-> curve_metric, pos_label |-> pos_label]
                /\ ret' = [exc |-> r.exc, value |-> r.value]
                /\ warns' = r.warns
    /\ op' = "calculate_performance_curve_data_on_folds"
    /\ UNCHANGED <<calls, pc, i, scores, fold_scores>>

NextCurve == CallPerformanceCurve

SpecCurve == InitCurve /\ [][NextCurve]_vars

(***************************************************************************)
(* Plot helpers, plots/helpers.py lines 10-105.  A results object is a     *)
(* record of its plot names in the order its set iterates, its folds, the  *)
(* phase keys of its predictions and the parameters of its                 *)
(* get_data_for_plot.  X, a and y are passed through unread.               *)
(***************************************************************************)
\* get_data_for_plot(self, plot_name, phase="train"), results.py lines 112-122
EvaluationResultsParameters == <<"plot_name", "phase">>

\* the parameters the call of helpers.py line 100 fits
CovariateParameters == <<"plot_name", "X", "a", "y", "phase">>

\* binding the positional and keyword arguments of a call to the parameters:
\* too many positionals, a keyword already bound by position or an unknown
\* keyword is a TypeError
BindingRaises(parameters, positionals, keywords) ==
    \/ positionals > Len(parameters)
    \/ \E k \in keywords :
          \/ k \notin Range(parameters)
          \/ \E n \in 1..positionals : n <= Len(parameters) /\ parameters[n] = k

\* results.get_data_for_plot(plot_name, X, a, y, phase=phase), line 100
get_data_for_plot(results, plot_name, X, a, y, phase) ==
    IF BindingRaises(results.parameters, 4, {"phase"})
    THEN [exc |-> "TypeError", value |-> NoValue]
    ELSE [exc |-> "none",
          value |-> [kind |-> "plot_data", plot_name |-> plot_name, phase |-> phase]]

\* lookup_name(plot_name)(*plot_data, cv=cv_idx_folds, ax=ax): draws and
\* returns the axis, or raises when the plot cannot be drawn from the data
plot_func(results, plot_name, plot_data, cv, ax) ==
    IF plot_name \in results.failing
    THEN [exc |-> "RuntimeError", value |-> NoValue]
    ELSE [exc |-> "none",
          value |-> [kind |-> "axis", plot_name |-> plot_name, data |-> plot_data,
                     cv |-> cv, ax |-> ax]]

\* lines 96-98
cv_idx_folds(results, phase) ==
    [f \in 1..Len(results.cv) |->
        IF phase = Some("train") THEN results.cv[f].train ELSE results.cv[f].valid]

\* _make_single_panel_evaluation_plot, lines 94-105; calls lists what was
\* asked of the results object and handed to the plot function
_make_single_panel_evaluation_plot(results, X, a, y, plot_name, phase, ax) ==
    IF plot_name \notin Range(results.all_plot_names)
    THEN [exc |-> "ValueError", value |-> NoValue, calls |-> <<>>]
    ELSE CHOOSE out \in
      { IF d.exc # "none"
        THEN [exc |-> d.exc, value |-> NoValue,
              calls |-> << [fn |-> "get_data_for_plot", plot_name |-> plot_name,
                            phase |-> phase, cv |-> <<>>, ax |-> None] >>]
        ELSE CHOOSE drawn \in
               { [exc |-> r.exc, value |-> r.value,
                  calls |-> << [fn |-> "get_data_for_plot", plot_name |-> plot_name,
                                phase |-> phase, cv |-> <<>>, ax |-> None],
                               [fn |-> "plot_func", plot_name |-> plot_name,
                                phase |-> phase, cv |-> cv_idx_folds(results, phase),
                                ax |-> ax] >>] :
                   r \in { plot_func(results, plot_name, d.value,
                                     cv_idx_folds(results, phase), ax) } } : TRUE :
          d \in { get_data_for_plot(results, plot_name, X, a, y, phase) } } : TRUE

\* get_subplots(n) and ravel(), lines 53-55: the axes of the figure, numbered
\* from 0, at least one per plot
phase_axes(n) == [k \in 1..n |-> Some(k - 1)]

\* named_axes[name] = plot_ax: a new key is appended, a known key keeps its
\* place and takes the new value
SetItem(items, name, value) ==
    IF \E k \in 1..Len(items) : items[k].name = name
    THEN [k \in 1..Len(items) |->
             IF items[k].name = name THEN [name |-> name, value |-> value]
             ELSE items[k]]
    ELSE Append(items, [name |-> name, value |-> value])

\* a loop body that lets the error of a plot leave the loop
MultipanelStep_NoCatch(st, results, X, a, y, name, phase, ax) ==
    LET r == _make_single_panel_evaluation_plot(results, X, a, y, name, phase, ax)
    IN  IF r.exc # "none"
        THEN [st EXCEPT !.exc = r.exc, !.calls = @ \o r.calls]
        ELSE [st EXCEPT !.named_axes = SetItem(@, name, r.value),
                        !.calls = @ \o r.calls]

\* lines 61-69 for one name: every Exception is caught, warned about and
\* recorded as None
MultipanelStep(st, results, X, a, y, name, phase, ax) ==
    LET r == _make_single_panel_evaluation_plot(results, X, a, y, name, phase, ax)
    IN  IF r.exc # "none"
        THEN [st EXCEPT !.named_axes = SetItem(@, name, None),
                        !.warns = Append(@, [name |-> name, error |-> r.exc]),
                        !.attempts = Append(@, name),
                        !.calls = @ \o r.calls]
        ELSE [st EXCEPT !.named_axes = SetItem(@, name, r.value),
                        !.attempts = Append(@, name),
                        !.calls = @ \o r.calls]

RECURSIVE MultipanelLoop(_, _, _, _, _, _, _, _)
\* the loop of lines 60-69 from position n of plot_names on
MultipanelLoop(st, n, results, X, a, y, plot_names, phase) ==
    IF n > Len(plot_names) \/ st.exc # "none"
    THEN st
    ELSE MultipanelLoop(
             CHOOSE out \in { MultipanelStep(st, results, X, a, y, plot_names[n], phase,
                                             phase_axes(Len(plot_names))[n]) } : TRUE,
             n + 1, results, X, a, y, plot_names, phase)

\* _make_multipanel_evaluation_plot, lines 52-71
_make_multipanel_evaluation_plot(results, X, a, y, plot_names, phase) ==
    CHOOSE out \in
      { [exc |-> st.exc,
         value |-> IF st.exc # "none" THEN NoValue
                   ELSE [kind |-> "dict", items |-> st.named_axes],
         warns |-> st.warns, attempts |-> st.attempts, calls |-> st.calls] :
          st \in { MultipanelLoop([named_axes |-> <<>>, warns |-> <<>>,
                                   attempts |-> <<>>, calls |-> <<>>, exc |-> "none"],
                                  1, results, X, a, y, plot_names, phase) } } : TRUE

RECURSIVE PhasesLoop(_, _, _, _, _, _, _, _)
\* the dict comprehension of lines 43-48 from position n of phases_to_plot on
PhasesLoop(st, n, results, X, a, y, plot_names, phases_to_plot) ==
    IF n > Len(phases_to_plot) \/ st.exc # "none"
    THEN st
    ELSE LET r == _make_multipanel_evaluation_plot(results, X, a, y, plot_names,
                                                   Some(phases_to_plot[n]))
         IN  PhasesLoop(
                 IF r.exc # "none"
                 THEN [st EXCEPT !.exc = r.exc, !.warns = @ \o r.warns,
                                 !.calls = @ \o r.calls]
                 ELSE [st EXCEPT !.items = SetItem(@, phases_to_plot[n], r.value),
                                 !.warns = @ \o r.warns, !.calls = @ \o r.calls],
                 n + 1, results, X, a, y, plot_names, phases_to_plot)

\* plot_evaluation_results, lines 36-49.  plot_names is the string "all",
\* another string, or a list of names; v holds the list, or the one string
plot_evaluation_results(results, X, a, y, plot_names, phase, ax) ==
    IF plot_names.kind = "str" /\ plot_names.v[1] # "all"
    THEN CHOOSE out \in
           { [exc |-> r.exc, value |-> r.value, warns |-> <<>>, calls |-> r.calls] :
               r \in { _make_single_panel_evaluation_plot(
                           results, X, a, y, plot_names.v[1], phase, ax) } } : TRUE
    ELSE LET names == IF plot_names.kind = "str" THEN results.all_plot_names
                      ELSE plot_names.v
             phases_to_plot == IF phase = None THEN results.predictions
                               ELSE <<phase.v>>
         IN  CHOOSE out \in
               { [exc |-> st.exc,
                  value |-> IF st.exc # "none" THEN NoValue
                            ELSE [kind |-> "dict", items |-> st.items],
                  warns |-> st.warns, calls |-> st.calls] :
                   st \in { PhasesLoop([items |-> <<>>, warns |-> <<>>, calls |-> <<>>,
                                        exc |-> "none"],
                                       1, results, X, a, y, names, phases_to_plot) } } : TRUE

(***************************************************************************)
(* Specification of the plot helpers: each action is one whole call        *)
(***************************************************************************)
MaxPlots == 2

PlotUniverse == {"roc_curve", "weight_distribution"}

\* what a caller may ask for: the plots there are and a name of no plot
RequestedNames == PlotUniverse \cup {"no_such_plot"}

NoDuplicateNames(s) == \A j, k \in 1..Len(s) : j # k => s[j] # s[k]

\* results objects: of results.py or with a get_data_for_plot that takes the
\* covariates; some of their plots cannot be drawn
ResultsObjects ==
    { [all_plot_names |-> names, failing |-> failing, parameters |-> parameters,
       cv |-> cv, predictions |-> phases] :
        names \in {s \in SeqsUpTo(PlotUniverse, 2) : NoDuplicateNames(s)},
        failing \in SUBSET PlotUniverse,
        parameters \in {EvaluationResultsParameters, CovariateParameters},
        cv \in {s \in SeqsUpTo(Folds, MaxFolds) : NoDuplicateNames(s)},
        phases \in {<<"train">>, <<"train", "valid">>} }

PlotNameArguments ==
    { [kind |-> "str", v |-> <<n>>] : n \in RequestedNames \cup {"all"} }
        \cup { [kind |-> "list", v |-> l] : l \in SeqsUpTo(RequestedNames, MaxPlots) }

PlotPhases == Optional({"train", "valid"})

InitPlot ==
    /\ op = "none"
    /\ args = [plot_names |-> <<>>]
    /\ ret = [exc |-> "none", value |-> NoValue]
    /\ warns = <<>>
    /\ calls = <<>>
    /\ idleCV

CallPlotEvaluationResults ==
    /\ op = "none"
    /\ \E results \in ResultsObjects, plot_names \in PlotNameArguments,
          phase \in PlotPhases, ax \in Optional({100}) :
        \E r \in { plot_evaluation_results(results, "X", "a", "y", plot_names,
                                           phase, ax) } :
            /\ args' = [results |-> results, plot_names |-> plot_names,
                        phase |-> phase, ax |-> ax]
            /\ ret' = [exc |-> r.exc, value |-> r.value]
            /\ warns' = r.warns
            /\ calls' = r.calls
    /\ op' = "plot_evaluation_results"
    /\ UNCHANGED <<pc, i, scores, fold_scores>>

CallMultipanel ==
    /\ op = "none"
    /\ \E results \in ResultsObjects, plot_names \in SeqsUpTo(RequestedNames, MaxPlots),
          phase \in PlotPhases :
        \E r \in { _make_multipanel_evaluation_plot(results, "X", "a", "y",
                                                    plot_names, phase) } :
            /\ args' = [results |-> results, plot_names |-> plot_names,
                        phase |-> phase, attempts |-> r.attempts]
            /\ ret' = [exc |-> r.exc, value |-> r.value]
            /\ warns' = r.warns
            /\ calls' = r.calls
    /\ op' = "_make_multipanel_evaluation_plot"
    /\ UNCHANGED <<pc, i, scores, fold_scores>>

CallSinglePanel ==
    /\ op = "none"
    /\ \E results \in ResultsObjects, plot_name \in RequestedNames,
          phase \in PlotPhases, ax \in Optional({100}) :
        \E r \in { _make_single_panel_evaluation_plot(results, "X", "a", "y",
                                                      plot_name, phase, ax) } :
            /\ args' = [results |-> results, plot_name |-> plot_name,
                        phase |-> phase, ax |-> ax]
            /\ ret' = [exc |-> r.exc, value |-> r.value]
            /\ calls' = r.calls
    /\ op' = "_make_single_panel_evaluation_plot"
    /\ UNCHANGED <<warns, pc, i, scores, fold_scores>>

NextPlot == CallPlotEvaluationResults \/ CallMultipanel \/ CallSinglePanel

SpecPlot == InitPlot /\ [][NextPlot]_vars

(***************************************************************************)
(* Vocabulary of the scoring claims                                        *)
(***************************************************************************)
IsBinaryCall == op = "score_binary_prediction"
IsRegressionCall == op = "score_regression_prediction"
Returned == ret.exc = "none"

\* the metric set a call evaluates, as the documentation states it: the
\* caller's mapping, or the default registry when none is given
RequestedBinary ==
    IF args.metrics_to_evaluate.some THEN args.metrics_to_evaluate.v
    ELSE IF args.only_numeric_metric THEN NUMERICAL_CLASSIFICATION_METRICS
    ELSE CLASSIFICATION_METRICS

\* the continuous-score names of the routing rule
ContinuousScoreNames ==
    {"hinge", "brier", "roc_curve", "roc_auc", "pr_curve", "avg_precision"}

\* the input the routing rule gives a metric name
RoutedInput(name) ==
    IF name \in ContinuousScoreNames THEN args.y_pred_proba ELSE args.y_pred

NoDuplicates(s) == \A j, k \in 1..Len(s) : j # k => s[j] # s[k]

\* the value the returned series holds for a name
ValueOf(series, name) ==
    LET k == CHOOSE k \in 1..Len(series.index) : series.index[k] = name
    IN  series.data[k]

HasWarning(name) == \E k \in 1..Len(warns) : warns[k].metric = name

\* the metric set of a regression call, as the documentation states it
RequestedRegression ==
    IF args.metrics_to_evaluate.some THEN args.metrics_to_evaluate.v
    ELSE REGRESSION_METRICS

Requested == IF IsBinaryCall THEN RequestedBinary ELSE RequestedRegression

\* the prediction a requested metric is to be scored on
InputOf(name) == IF IsBinaryCall THEN RoutedInput(name) ELSE Some(args.y_pred)

\* what the callable of a requested metric does on the call's inputs
RaisesOn(item) == MetricRaises(item.func, args.y_true, InputOf(item.name).v)

Without(items, k) == SubSeq(items, 1, k - 1) \o SubSeq(items, k + 1, Len(items))

\* the same call with the k-th requested metric left out of the metric set
RerunWithout(k) ==
    IF IsBinaryCall
    THEN score_binary_prediction(args.y_true, args.y_pred_proba, args.y_pred,
             args.sample_weight, Some(Without(Requested, k)),
             args.only_numeric_metric)
    ELSE score_regression_prediction(args.y_true, args.y_pred, args.sample_weight,
             Some(Without(Requested, k)))

IsScoringCall == IsBinaryCall \/ IsRegressionCall

(***************************************************************************)
(* C1: the keys of the mapping score_binary_prediction returns are exactly *)
(* the requested metric names whose routed input (y_pred_proba for the     *)
(* continuous-score names, y_pred for the others) is not None, each with   *)
(* one value; a metric whose routed input is None is absent, and no error  *)
(* is raised for the absence: a call that raises does so because a         *)
(* callable that was given its input raised.                               *)
(***************************************************************************)
C1_KeySet ==
    IsBinaryCall =>
        /\ Returned =>
            /\ Range(ret.series.index) =
                 {Requested[k].name : k \in {j \in 1..Len(Requested) :
                                              RoutedInput(Requested[j].name).some}}
            /\ NoDuplicates(ret.series.index)
            /\ Len(ret.series.data) = Len(ret.series.index)
        /\ ~Returned =>
            \E k \in 1..Len(Requested) :
                /\ RoutedInput(Requested[k].name).some
                /\ RaisesOn(Requested[k]) = ret.exc

\* a returned call with one metric skipped for its missing input, one metric
\* evaluated to NaN and one to a value
C1_Witness ==
    /\ IsBinaryCall /\ Returned
    /\ \E k \in 1..Len(Requested) : ~RoutedInput(Requested[k].name).some
    /\ \E k \in 1..Len(ret.series.data) : ret.series.data[k] = NaN
    /\ \E k \in 1..Len(ret.series.data) : ret.series.data[k] # NaN

(***************************************************************************)
(* C2 as stated: whenever a metric callable fails during a scoring call,   *)
(* the call still returns, that metric is NaN and a warning was emitted.   *)
(***************************************************************************)
C2_AnyFailureAbsorbed ==
    IsScoringCall =>
        \A k \in 1..Len(calls) :
            MetricRaises(calls[k].func, calls[k].y_true, calls[k].pred) # "none" =>
                /\ Returned
                /\ ValueOf(ret.series, calls[k].name) = NaN
                /\ HasWarning(calls[k].name)

(***************************************************************************)
(* C2 amended: a ValueError of a metric callable never leaves a scoring    *)
(* call; when every failing callable fails with ValueError the call        *)
(* returns, each failed metric is NaN and has a warning; a call that       *)
(* raises passes on the exception (not a ValueError) of the callable it    *)
(* called last.                                                            *)
(***************************************************************************)
C2_ValueErrorAbsorbed ==
    IsScoringCall =>
        /\ ret.exc # "ValueError"
        /\ (\A k \in 1..Len(calls) :
               MetricRaises(calls[k].func, calls[k].y_true, calls[k].pred)
                   \in {"none", "ValueError"})
             => /\ Returned
                /\ \A k \in 1..Len(calls) :
                     MetricRaises(calls[k].func, calls[k].y_true, calls[k].pred)
                         = "ValueError"
                     => /\ ValueOf(ret.series, calls[k].name) = NaN
                        /\ HasWarning(calls[k].name)
        /\ ~Returned =>
             /\ Len(calls) > 0
             /\ MetricRaises(calls[Len(calls)].func, calls[Len(calls)].y_true,
                             calls[Len(calls)].pred) = ret.exc

\* a regression call on the default registry where msle fails validation
C2_Witness ==
    /\ IsRegressionCall /\ Returned
    /\ ~args.metrics_to_evaluate.some
    /\ \E k \in 1..Len(calls) :
         /\ calls[k].name = "msle"
         /\ MetricRaises(calls[k].func, calls[k].y_true, calls[k].pred) = "ValueError"
         /\ ValueOf(ret.series, "msle") = NaN

(***************************************************************************)
(* C3: in a scoring call that returns, a metric whose callable raises      *)
(* ValueError is NaN and has a warning, and every other requested metric   *)
(* that has its input holds exactly the value its callable returned, which *)
(* is the value it holds when the failing metric is left out of the metric *)
(* set, wherever the failing metric stands in the set.                     *)
(***************************************************************************)
C3_FailureIsolation ==
    (IsScoringCall /\ Returned) =>
        \A k \in 1..Len(Requested) :
            (InputOf(Requested[k].name).some /\ RaisesOn(Requested[k]) = "ValueError") =>
                /\ Requested[k].name \in Range(ret.series.index)
                /\ ValueOf(ret.series, Requested[k].name) = NaN
                /\ HasWarning(Requested[k].name)
                /\ \A j \in 1..Len(Requested) :
                     (j # k /\ InputOf(Requested[j].name).some
                            /\ RaisesOn(Requested[j]) = "none") =>
                        /\ Requested[j].name \in Range(ret.series.index)
                        /\ ValueOf(ret.series, Requested[j].name) =
                             MetricValue(Requested[j].func, args.y_true,
                                         InputOf(Requested[j].name).v,
                                         args.sample_weight)
                        /\ ValueOf(ret.series, Requested[j].name) =
                             ValueOf(RerunWithout(k).series, Requested[j].name)

\* the first metric of the set fails validation and a later one is evaluated
C3_Witness ==
    /\ IsScoringCall /\ Returned
    /\ Len(Requested) >= 2
    /\ InputOf(Requested[1].name).some /\ RaisesOn(Requested[1]) = "ValueError"
    /\ InputOf(Requested[2].name).some /\ RaisesOn(Requested[2]) = "none"
    /\ ret.series.data[1] = NaN /\ ret.series.data[2] # NaN

(***************************************************************************)
(* C4: every callable score_binary_prediction invokes gets y_true as its   *)
(* first argument, the caller's sample_weight (None included) and, as its  *)
(* prediction, y_pred_proba exactly when its name is a continuous-score    *)
(* name and y_pred otherwise; the callables invoked by a call that returns *)
(* are those of the metrics whose routed input was supplied, in the order  *)
(* of the metric set.                                                      *)
(***************************************************************************)
C4_Routing ==
    IsBinaryCall =>
        /\ \A k \in 1..Len(calls) :
             /\ calls[k].y_true = args.y_true
             /\ calls[k].sw = args.sample_weight
             /\ RoutedInput(calls[k].name).some
             /\ calls[k].pred = RoutedInput(calls[k].name).v
             /\ calls[k].name \in ContinuousScoreNames => calls[k].pred = args.y_pred_proba.v
             /\ calls[k].name \notin ContinuousScoreNames => calls[k].pred = args.y_pred.v
        /\ Returned =>
             Names(calls) = Names(SelectSeq(Requested,
                                LAMBDA item : RoutedInput(item.name).some))

\* both inputs supplied, no sample weight, and callables of both routes invoked
C4_Witness ==
    /\ IsBinaryCall /\ Returned
    /\ args.y_pred_proba.some /\ args.y_pred.some /\ ~args.sample_weight.some
    /\ \E k \in 1..Len(calls) : calls[k].name \in ContinuousScoreNames
    /\ \E k \in 1..Len(calls) : calls[k].name \notin ContinuousScoreNames

(***************************************************************************)
(* Vocabulary of the score_cv claims                                       *)
(***************************************************************************)
IsCV == op = "score_cv"
CVDone == IsCV /\ pc = "done"
CVRaised == IsCV /\ pc = "raised"

PhaseKeys == Names([k \in 1..Len(args.predictions) |->
                       [name |-> args.predictions[k].phase]])

\* the tables of the k-th phase as score_cv collected them
Collected(k) == scores[k].folds

AllCollected(P(_)) ==
    \A k \in 1..Len(scores) : \A f \in 1..Len(Collected(k)) : P(Collected(k)[f])

\* the label starts with the key
Prefixed(label, key) ==
    Len(label) >= Len(key) /\ SubSeq(label, 1, Len(key)) = key

\* the rows of the frame whose label starts with the key, in order, the key
\* taken off their labels
Select(frame, key) ==
    LET rs == SelectSeq([r \in 1..Len(frame.index) |-> r],
                        LAMBDA r : Prefixed(frame.index[r], key))
    IN  [columns |-> frame.columns,
         index |-> [n \in 1..Len(rs) |->
                      SubSeq(frame.index[rs[n]], Len(key) + 1, Len(frame.index[rs[n]]))],
         data |-> [n \in 1..Len(rs) |-> frame.data[rs[n]]]]

\* the slices score_cv owes to the phase at position k for the f-th fold
SliceIndex(k, f) ==
    IF args.predictions[k].phase = "train" THEN args.cv[f].train ELSE args.cv[f].valid

SlicedX(k, f) ==
    [columns |-> args.X.columns,
     data |-> [c \in 1..Len(args.X.columns) |->
                 [n \in 1..Len(SliceIndex(k, f)) |-> args.X.data[c][SliceIndex(k, f)[n]]]]]

SlicedA(k, f) == [n \in 1..Len(SliceIndex(k, f)) |-> args.a[SliceIndex(k, f)[n]]]

SlicedY(k, f) == [n \in 1..Len(SliceIndex(k, f)) |-> args.y[SliceIndex(k, f)[n]]]

(***************************************************************************)
(* C5: score_estimation forwards an outcome bundle to                      *)
(* calculate_metrics(a_true, y_true, metrics) and a weight or propensity   *)
(* bundle to calculate_metrics(X, a_true, metrics); any other bundle       *)
(* raises a ValueError that names its type, and inside score_cv that error *)
(* ends the call at once with no result, whatever was scored before.       *)
(***************************************************************************)
C5_Dispatch ==
    IsCV =>
      \A n \in 1..Len(calls) :
        LET e == calls[n]
            d == e.dispatch
            t == e.prediction.type
        IN  /\ t = "OutcomeEvaluatorPredictions" =>
                 /\ d.branch = "outcome"
                 /\ d.self = e.prediction
                 /\ d.a_true = e.a /\ d.y_true = e.y
                 /\ d.metrics_to_evaluate = args.metrics_to_evaluate
            /\ t \in {"WeightEvaluatorPredictions", "PropensityEvaluatorPredictions"} =>
                 /\ d.branch = "weight"
                 /\ d.self = e.prediction
                 /\ d.X = e.X /\ d.a_true = e.a
                 /\ d.metrics_to_evaluate = args.metrics_to_evaluate
            /\ t \notin {"OutcomeEvaluatorPredictions", "WeightEvaluatorPredictions",
                         "PropensityEvaluatorPredictions"} =>
                 /\ d.branch = "invalid"
                 /\ n = Len(calls)
                 /\ pc = "raised"
                 /\ ret = [exc |-> "ValueError", value |-> NoValue, message |-> t]
                 /\ ~ENABLED NextCV

\* a second fold holds a bundle of an unknown type: the first fold was scored
\* and the call ended with the error
C5_Witness ==
    /\ CVRaised
    /\ ret.exc = "ValueError"
    /\ ret.message = "WeightEvaluatorPredictions2"
    /\ i = 1
    /\ Len(calls) > 1
    /\ \E k \in 1..Len(scores) : Len(Collected(k)) > 0
    /\ \E n \in 1..Len(calls) : calls[n].dispatch.branch = "outcome"

(***************************************************************************)
(* C6: score_cv processes the folds in ascending order; the entry at       *)
(* position f of a phase's list is score_estimation of                     *)
(* predictions[phase][f] on X, a, y sliced with the train indices of fold  *)
(* f for train and its validation indices for valid; after a fold each     *)
(* list is one longer; the rows labelled (phase, fold) of the result are   *)
(* those of that entry.                                                    *)
(***************************************************************************)
C6_FoldOrder ==
    IsCV =>
      /\ pc = "loop" => \A k \in 1..Len(scores) : Len(Collected(k)) = i
      /\ pc = "done" => \A k \in 1..Len(scores) : Len(Collected(k)) = Len(args.cv)
      /\ \A k \in 1..Len(scores) :
           /\ scores[k].phase = args.predictions[k].phase
           /\ \A f \in 1..Len(Collected(k)) :
                Collected(k)[f] =
                    score_estimation(args.predictions[k].folds[f], SlicedX(k, f),
                                     SlicedA(k, f), SlicedY(k, f),
                                     args.metrics_to_evaluate).value
      /\ \A n \in 1..Len(calls) :
           /\ calls[n].fold = (n - 1) \div Len(PhaseKeys)
           /\ calls[n].phase = PhaseKeys[((n - 1) % Len(PhaseKeys)) + 1]
      /\ pc = "done" =>
           \A k \in 1..Len(scores) : \A f \in 1..Len(Collected(k)) :
             LET key == <<scores[k].phase, f - 1>>
                 Same(whole, part) ==
                     /\ Select(whole, key).index = part.index
                     /\ Range(part.columns) \subseteq Range(whole.columns)
                     /\ \A r \in 1..Len(part.index) : \A c \in 1..Len(whole.columns) :
                          Select(whole, key).data[r][c] =
                              IF whole.columns[c] \in Range(part.columns)
                              THEN part.data[r][Position(part.columns, whole.columns[c])]
                              ELSE NaN
             IN  IF IsWeightEvaluatorScores(ret.value)
                 THEN /\ Same(ret.value.prediction_scores, Collected(k)[f].prediction_scores)
                      /\ Same(ret.value.covariate_balance, Collected(k)[f].covariate_balance)
                 ELSE Same(ret.value, Collected(k)[f])

\* two folds and two phases were scored and aggregated
C6_Witness ==
    /\ CVDone
    /\ i = 2
    /\ PhaseKeys = <<"valid", "train">>
    /\ Len(calls) = 4
    /\ IsFrame(ret.value)
    /\ Len(ret.value.index) = 4
    /\ args.cv[1] # args.cv[2]

RECURSIVE TotalRows(_)
\* the number of rows of a list of tables
TotalRows(frames) ==
    IF frames = <<>> THEN 0 ELSE Len(Head(frames).index) + TotalRows(Tail(frames))

RECURSIVE RowsOfPhases(_, _)
\* the number of rows of the first k phases of a mapping
RowsOfPhases(scores_in, k) ==
    IF k = 0 THEN 0
    ELSE RowsOfPhases(scores_in, k - 1) + TotalRows(scores_in[k].folds)

\* the number of rows that come before the f-th table of the k-th phase
RowsBefore(scores_in, k, f) ==
    RowsOfPhases(scores_in, k - 1) + TotalRows(SubSeq(scores_in[k].folds, 1, f - 1))

CombinedFoldScores == op = "_combine_fold_scores" /\ ret.exc = "none"

(***************************************************************************)
(* C7: the result of _combine_fold_scores has as many rows as all the      *)
(* input tables together, and every row of the table at position f of the  *)
(* list of phase p is in it once, labelled (p, f) with f counted from 0    *)
(* before its own label, with its values.                                  *)
(***************************************************************************)
C7_OriginLabels ==
    CombinedFoldScores =>
      LET scores_in == args.scores
          out == ret.value
      IN  /\ Len(out.index) = RowsOfPhases(scores_in, Len(scores_in))
          /\ Len(out.data) = Len(out.index)
          /\ \A k \in 1..Len(scores_in) : \A f \in 1..Len(scores_in[k].folds) :
               LET t == scores_in[k].folds[f]
                   at == RowsBefore(scores_in, k, f)
               IN  \A r \in 1..Len(t.index) :
                     /\ out.index[at + r] = <<scores_in[k].phase, f - 1>> \o t.index[r]
                     /\ \A c \in 1..Len(t.columns) :
                          /\ t.columns[c] \in Range(out.columns)
                          /\ out.data[at + r][Position(out.columns, t.columns[c])]
                               = t.data[r][c]
                     /\ \A c \in 1..Len(out.columns) :
                          out.columns[c] \notin Range(t.columns) =>
                              out.data[at + r][c] = NaN

\* two phases of two tables each, one of them with two rows
C7_Witness ==
    /\ CombinedFoldScores
    /\ Len(args.scores) = 2
    /\ \A k \in 1..2 : Len(args.scores[k].folds) = 2
    /\ Len(args.scores[1].folds[2].index) = 2
    /\ Len(ret.value.index) > 4
    /\ \E r \in 1..Len(ret.value.index) :
          Prefixed(ret.value.index[r], <<"train", 1>>)

(***************************************************************************)
(* C8: the result of _combine_fold_scores for one phase with one table t0, *)
(* selected at (phase, fold 0), is t0: the same rows in the same order,    *)
(* the same columns and values; only the two label levels are added.       *)
(***************************************************************************)
C8_RoundTrip ==
    (/\ op = "_combine_fold_scores"
     /\ Len(args.scores) = 1
     /\ Len(args.scores[1].folds) = 1) =>
        LET t0 == args.scores[1].folds[1]
            selected == Select(ret.value, <<args.scores[1].phase, 0>>)
        IN  /\ ret.exc = "none"
            /\ Len(ret.value.index) = Len(t0.index)
            /\ selected.index = t0.index
            /\ selected.columns = t0.columns
            /\ selected.data = t0.data
            /\ ret.value.names = <<"phase", "fold">> \o t0.names

\* {"train": [t0]} for a table of two rows
C8_Witness ==
    /\ CombinedFoldScores
    /\ Len(args.scores) = 1
    /\ args.scores[1].phase = "train"
    /\ Len(args.scores[1].folds) = 1
    /\ Len(args.scores[1].folds[1].index) = 2
    /\ Len(ret.value.index) = 2

\* the lists a component of the collected pairs makes up
CollectedPredictionScores ==
    [k \in 1..Len(scores) |->
        [phase |-> scores[k].phase,
         folds |-> [f \in 1..Len(Collected(k)) |-> Collected(k)[f].prediction_scores]]]

CollectedCovariateBalance ==
    [k \in 1..Len(scores) |->
        [phase |-> scores[k].phase,
         folds |-> [f \in 1..Len(Collected(k)) |-> Collected(k)[f].covariate_balance]]]

\* the (phase, fold) levels of the labels of a table
OriginLabels(frame) == { SubSeq(frame.index[r], 1, 2) : r \in 1..Len(frame.index) }

CVPair == CVDone /\ IsWeightEvaluatorScores(ret.value)

TwoLevels == \A n \in 1..Len(calls) : Range(calls[n].a) = {0, 1}

(***************************************************************************)
(* C9: the pair score_cv gets from _combine_weight_evaluator_fold_scores   *)
(* holds _combine_fold_scores of the per-fold prediction_scores tables and *)
(* _combine_fold_scores of the per-fold covariate_balance tables, under    *)
(* the same (phase, fold) labels; with P phases, F folds and C covariates  *)
(* the first has P*F rows and the second C rows per (phase, fold), and     *)
(* with two treatment levels the columns weighted and unweighted.          *)
(***************************************************************************)
C9_PairOfAggregates ==
    CVPair =>
      LET P == Len(PhaseKeys)
          F == Len(args.cv)
          C == Len(args.X.columns)
          ps == ret.value.prediction_scores
          cb == ret.value.covariate_balance
      IN  /\ cb.names = <<"phase", "fold", "covariate">>
          /\ ps = _combine_fold_scores(CollectedPredictionScores).value
          /\ cb = _combine_fold_scores(CollectedCovariateBalance).value
          /\ OriginLabels(ps) = OriginLabels(cb)
          /\ OriginLabels(ps) = { <<PhaseKeys[k], f>> : k \in 1..P, f \in 0..(F - 1) }
          /\ Len(ps.index) = P * F
          /\ Len(cb.index) = P * F * C
          /\ \A k \in 1..P : \A f \in 0..(F - 1) :
               Len(Select(cb, <<PhaseKeys[k], f>>).index) = C
          /\ TwoLevels => cb.columns = << <<"weighted">>, <<"unweighted">> >>

\* two phases, two folds, two covariates and both treatment levels in every
\* slice: four rows of prediction scores and eight rows of balance
C9_Witness ==
    /\ CVPair
    /\ Len(PhaseKeys) = 2
    /\ Len(args.cv) = 2
    /\ Len(args.X.columns) = 2
    /\ TwoLevels
    /\ Len(ret.value.prediction_scores.index) = 4
    /\ Len(ret.value.covariate_balance.index) = 8

\* the loop over the folds has ended and score_cv has aggregated
Decided == IsCV /\ pc \in {"done", "raised"} /\ i = Len(args.cv)

SomeCollected == \E k \in 1..Len(scores) : Len(Collected(k)) > 0

(***************************************************************************)
(* C10 as stated: score_cv returns a WeightEvaluatorScores pair if and     *)
(* only if the per-fold results it collected are pairs and a single table  *)
(* otherwise, in agreement with every result collected.                    *)
(***************************************************************************)
C10_ShapeFromAllFolds ==
    (Decided /\ SomeCollected) =>
        /\ ret.exc = "none"
        /\ IsWeightEvaluatorScores(ret.value) <=> AllCollected(IsWeightEvaluatorScores)
        /\ ~IsWeightEvaluatorScores(ret.value) => IsFrame(ret.value)

(***************************************************************************)
(* C10: score_cv chooses the aggregation by the type of the last per-fold  *)
(* result alone.  When all the collected results are pairs it returns a    *)
(* pair and when all are tables a single table; when they are mixed it     *)
(* returns nothing: the aggregation raises AttributeError if the last      *)
(* result is a pair and TypeError if it is a table.  What it returns       *)
(* agrees with every collected result.                                     *)
(***************************************************************************)
C10_ShapeFromLastFold ==
    (Decided /\ SomeCollected) =>
        /\ fold_scores = Collected(Len(scores))[Len(args.cv)]
        /\ AllCollected(IsWeightEvaluatorScores) =>
               ret.exc = "none" /\ IsWeightEvaluatorScores(ret.value)
        /\ AllCollected(IsFrame) =>
               ret.exc = "none" /\ IsFrame(ret.value)
        /\ (~AllCollected(IsWeightEvaluatorScores) /\ ~AllCollected(IsFrame)) =>
               /\ ret.value = NoValue
               /\ ret.exc = IF IsWeightEvaluatorScores(fold_scores)
                            THEN "AttributeError" ELSE "TypeError"
        /\ ret.exc = "none" =>
               /\ IsWeightEvaluatorScores(ret.value) <=> AllCollected(IsWeightEvaluatorScores)
               /\ IsFrame(ret.value) <=> AllCollected(IsFrame)

\* the last fold gave a pair, an earlier one a table
C10_Witness ==
    /\ Decided
    /\ IsWeightEvaluatorScores(fold_scores)
    /\ \E k \in 1..Len(scores) : \E f \in 1..Len(Collected(k)) : IsFrame(Collected(k)[f])
    /\ ret.exc = "AttributeError"

IsBalanceCall == op = "calculate_covariate_balance"

TwoTreatmentLevels == IsBalanceCall /\ Cardinality(Range(args.a)) = 2

\* the per-level table the call built for the treatment value v
LevelTable(v) ==
    LET t == CHOOSE t \in 1..Len(calls[1].results) :
                 calls[1].results[t].treatment_value = v
    IN  calls[1].results[t].table

MaxLevel == CHOOSE v \in Range(args.a) : \A u \in Range(args.a) : u <= v

MinLevel == CHOOSE v \in Range(args.a) : \A u \in Range(args.a) : v <= u

(***************************************************************************)
(* C11: with exactly two treatment levels calculate_covariate_balance      *)
(* returns the distances of the maximum level only, in the columns         *)
(* weighted and unweighted, one row per covariate of X.                    *)
(***************************************************************************)
C11_MaximumLevelOnly ==
    TwoTreatmentLevels =>
        /\ ret.value.columns = << <<"weighted">>, <<"unweighted">> >>
        /\ Len(ret.value.index) = Len(args.X.columns)
        /\ ret.value.index = [c \in 1..Len(args.X.columns) |-> <<args.X.columns[c]>>]
        /\ \A c \in 1..Len(args.X.columns) : Len(ret.value.data[c]) = 2
        /\ ret.value.data = LevelTable(MaxLevel).data

\* levels 0 and 2, two covariates, and the two per-level tables differ
C11_Witness ==
    /\ TwoTreatmentLevels
    /\ Range(args.a) = {0, 2}
    /\ Len(args.X.columns) = 2
    /\ Len(ret.value.index) = 2
    /\ LevelTable(0).data # LevelTable(2).data
    /\ ret.value.data = LevelTable(2).data

\* the distance of opposite sign
Negated(d) == IF d = NaN THEN NaN ELSE DistanceOf(-d.num, d.scale, d.spread)

IsMake == op = "make"

\* make was given a first fitted model
HasFirstModel ==
    /\ IsMake
    /\ args.models.kind = "dict" => "train" \in Range(args.models.phases)
    /\ args.models.kind \in {"dict", "list"} => Len(args.models.folds) > 0

FirstModel ==
    IF args.models.kind = "model" THEN args.models ELSE args.models.folds[1]

Flagged ==
    \E k \in 1..Len(args.predictions) : \E f \in 1..Len(args.predictions[k].folds) :
        args.predictions[k].folds[f].is_binary_outcome

(***************************************************************************)
(* C13: EvaluationResults.make chooses the variant by the class of the     *)
(* first fitted model alone: a propensity estimator gives the propensity   *)
(* variant, any other weight estimator the weight variant, an individual   *)
(* outcome estimator one of the two outcome variants, and any other model  *)
(* an error and no result object.                                          *)
(***************************************************************************)
C13_VariantByFirstModel ==
    HasFirstModel =>
        LET bases == EstimatorBases(FirstModel.type)
        IN  /\ "PropensityEstimator" \in bases =>
                 ret.exc = "none" /\ ret.value.kind = "PropensityEvaluationResults"
            /\ ("WeightEstimator" \in bases /\ "PropensityEstimator" \notin bases) =>
                 ret.exc = "none" /\ ret.value.kind = "WeightEvaluationResults"
            /\ bases = {"IndividualOutcomeEstimator"} =>
                 /\ ret.exc = "none"
                 /\ ret.value.kind \in {"BinaryOutcomeEvaluationResults",
                                        "ContinuousOutcomeEvaluationResults"}
            /\ bases = {} =>
                 /\ ret.exc = "ValueError"
                 /\ ret.value = NoValue
                 /\ ret.message = FirstModel.type
            /\ ret.exc = "none" => ret.value.models = args.models

\* a list whose first model is a propensity estimator and whose second is an
\* outcome estimator
C13_Witness ==
    /\ HasFirstModel
    /\ args.models.kind = "list"
    /\ Len(args.models.folds) = 2
    /\ args.models.folds[1].type = "IPW"
    /\ args.models.folds[2].type = "Standardization"
    /\ ret.value.kind = "PropensityEvaluationResults"

(***************************************************************************)
(* C14: for an individual outcome estimator make returns the binary        *)
(* variant exactly when some prediction record of some fold of some phase  *)
(* has is_binary_outcome set, and the continuous variant exactly when none *)
(* has, empty fold lists included.                                         *)
(***************************************************************************)
C14_BinaryIffFlagged ==
    (HasFirstModel /\ EstimatorBases(FirstModel.type) = {"IndividualOutcomeEstimator"}) =>
        /\ ret.exc = "none"
        /\ Flagged <=> ret.value.kind = "BinaryOutcomeEvaluationResults"
        /\ ~Flagged <=> ret.value.kind = "ContinuousOutcomeEvaluationResults"

\* only the last record of the second phase is flagged
C14_Witness ==
    /\ HasFirstModel
    /\ FirstModel.type = "Standardization"
    /\ Len(args.predictions) = 2
    /\ \A f \in 1..Len(args.predictions[1].folds) :
           ~args.predictions[1].folds[f].is_binary_outcome
    /\ Len(args.predictions[2].folds) = 2
    /\ ~args.predictions[2].folds[1].is_binary_outcome
    /\ args.predictions[2].folds[2].is_binary_outcome
    /\ ret.value.kind = "BinaryOutcomeEvaluationResults"

\* the fold tables handed to the combiner do not all have the same columns
MismatchedTables(scores_in) ==
    \E k, j \in 1..Len(scores_in) :
        \E f \in 1..Len(scores_in[k].folds) : \E g \in 1..Len(scores_in[j].folds) :
            Range(scores_in[k].folds[f].columns) # Range(scores_in[j].folds[g].columns)

(***************************************************************************)
(* C15: when the fold tables given to _combine_fold_scores do not all have *)
(* the same column set, within a phase or across phases, the call raises   *)
(* and returns no aggregated table.                                        *)
(***************************************************************************)
C15_MismatchRaises ==
    (op = "_combine_fold_scores" /\ MismatchedTables(args.scores)) =>
        ret.exc # "none" /\ ret.value = NoValue

\* the last call to score_estimation met a bundle of an unknown type
DispatchFailed ==
    /\ Len(calls) > 0
    /\ calls[Len(calls)].dispatch.branch = "invalid"
    /\ ret.exc = "ValueError"

\* the aggregation was handed per-fold results of different types or tables
\* of different columns
AggregationContractViolated ==
    /\ Decided
    /\ SomeCollected
    /\ \/ ~AllCollected(IsWeightEvaluatorScores) /\ ~AllCollected(IsFrame)
       \/ AllCollected(IsFrame) /\ MismatchedTables(scores)
       \/ /\ AllCollected(IsWeightEvaluatorScores)
          /\ \/ MismatchedTables(CollectedPredictionScores)
             \/ MismatchedTables(CollectedCovariateBalance)

(***************************************************************************)
(* C16: score_cv ends with an error only after a bundle of an unknown type *)
(* or a contract violation in the aggregation; for any phase keys, any     *)
(* number of folds and metrics undefined on a fold it scores every fold    *)
(* and phase and returns the aggregate.                                    *)
(***************************************************************************)
C16_AbortsOnlyForTypeOrShape ==
    CVRaised => DispatchFailed \/ AggregationContractViolated

WeightBundleTypes == {"WeightEvaluatorPredictions", "PropensityEvaluatorPredictions"}

\* the metrics a weight bundle is scored with
WeightMetricNames ==
    IF args.metrics_to_evaluate.some
    THEN Names(args.metrics_to_evaluate.v)
    ELSE Names(NUMERICAL_CLASSIFICATION_METRICS)

(***************************************************************************)
(* C17: calculate_metrics of a weight bundle, and unchanged of a           *)
(* propensity bundle, scores weight_for_being_treated as the continuous    *)
(* score and treatment_assignment_pred as the labels against a_true,       *)
(* balances X against a_true with weight_by_treatment_assignment, and      *)
(* returns the pair of a one-row table with a column per scored metric and *)
(* the balance table.                                                      *)
(***************************************************************************)
C17_WeightMetrics ==
    IsCV =>
      \A k \in 1..Len(scores) : \A f \in 1..Len(Collected(k)) :
        LET self == args.predictions[k].folds[f]
            out == Collected(k)[f]
            scored == score_binary_prediction(
                          SlicedA(k, f), Some(self.weight_for_being_treated),
                          Some(self.treatment_assignment_pred), None,
                          args.metrics_to_evaluate, TRUE)
        IN  self.type \in WeightBundleTypes =>
              /\ IsWeightEvaluatorScores(out)
              /\ IsFrame(out.prediction_scores)
              /\ Len(out.prediction_scores.index) = 1
              /\ Len(out.prediction_scores.data) = 1
              /\ out.prediction_scores.columns
                   = [n \in 1..Len(WeightMetricNames) |-> <<WeightMetricNames[n]>>]
              /\ out.prediction_scores.data[1] = scored.series.data
              /\ \A n \in 1..Len(WeightMetricNames) :
                   LET routed == IF WeightMetricNames[n] \in ContinuousScoreNames
                                 THEN self.weight_for_being_treated
                                 ELSE self.treatment_assignment_pred
                       cell == out.prediction_scores.data[1][n]
                   IN  cell # NaN => cell.y_true = SlicedA(k, f) /\ cell.pred = routed
              /\ out.covariate_balance
                   = calculate_covariate_balance(SlicedX(k, f), SlicedA(k, f),
                                                 self.weight_by_treatment_assignment,
                                                 "abs_smd")

\* a propensity bundle and a weight bundle were scored with the default
\* metrics on slices that hold both treatment levels
C17_Witness ==
    /\ IsCV
    /\ TwoLevels
    /\ Len(scores) > 0
    /\ Len(Collected(1)) = 2
    /\ args.predictions[1].folds[1].type = "PropensityEvaluatorPredictions"
    /\ args.predictions[1].folds[2].type = "WeightEvaluatorPredictions"
    /\ Len(Collected(1)[2].prediction_scores.columns) = 10
    /\ Len(Collected(1)[2].covariate_balance.index) = Len(args.X.columns)

\* the names a binary call scores: those of the set whose routed input is given
ScoredBinaryNames(items) ==
    SelectSeq(Names(items), LAMBDA name : RoutedInput(name).some)

(***************************************************************************)
(* C18: both scoring functions use the default registry only when the      *)
(* metric set is None; a supplied mapping, the empty one included, is      *)
(* evaluated as it is and no default metric appears in the result.  For    *)
(* score_binary_prediction without a metric set only_numeric_metric        *)
(* chooses between the numeric registry and the combined one, and it has   *)
(* no effect when a set is supplied.                                       *)
(***************************************************************************)
C18_MetricSetSelection ==
    (IsScoringCall /\ Returned) =>
        /\ IsRegressionCall =>
             ret.series.index =
                 IF args.metrics_to_evaluate.some
                 THEN Names(args.metrics_to_evaluate.v)
                 ELSE Names(REGRESSION_METRICS)
        /\ IsBinaryCall =>
             /\ ret.series.index =
                 IF args.metrics_to_evaluate.some
                 THEN ScoredBinaryNames(args.metrics_to_evaluate.v)
                 ELSE IF args.only_numeric_metric
                 THEN ScoredBinaryNames(NUMERICAL_CLASSIFICATION_METRICS)
                 ELSE ScoredBinaryNames(CLASSIFICATION_METRICS)
             /\ args.metrics_to_evaluate.some =>
                  ret.series =
                      score_binary_prediction(
                          args.y_true, args.y_pred_proba, args.y_pred,
                          args.sample_weight, args.metrics_to_evaluate,
                          ~args.only_numeric_metric).series

UnweightedColumns(table) ==
    LET cols == SelectSeq([c \in 1..Len(table.columns) |-> c],
                          LAMBDA c : table.columns[c][Len(table.columns[c])] = "unweighted")
    IN  [r \in 1..Len(table.data) |-> [n \in 1..Len(cols) |-> table.data[r][cols[n]]]]

WeightedColumns(table) ==
    LET cols == SelectSeq([c \in 1..Len(table.columns) |-> c],
                          LAMBDA c : table.columns[c][Len(table.columns[c])] = "weighted")
    IN  [r \in 1..Len(table.data) |-> [n \in 1..Len(cols) |-> table.data[r][cols[n]]]]

(***************************************************************************)
(* C20: the unweighted column of calculate_covariate_balance is computed   *)
(* with weight 1 for every sample: it is the same for every weight vector  *)
(* given with the same X, a and metric, and with weights that are all 1    *)
(* the weighted column equals it, for every covariate and treatment level. *)
(***************************************************************************)
C20_UnweightedIgnoresWeights ==
    IsBalanceCall =>
        /\ Len(UnweightedColumns(ret.value)) = Len(args.X.columns)
        /\ \A r \in 1..Len(args.X.columns) :
             Len(UnweightedColumns(ret.value)[r]) * 2 = Len(ret.value.columns)
        /\ \A w \in BalanceWeights :
             /\ UnweightedColumns(calculate_covariate_balance(args.X, args.a, w, args.metric))
                  = UnweightedColumns(ret.value)
             /\ \A t \in 1..Len(calls[1].results) :
                  UnweightedColumns(BalanceByLevel(args.X, args.a, w, args.metric)[t].table)
                      = UnweightedColumns(calls[1].results[t].table)
        /\ (\A k \in 1..Len(args.w) : args.w[k] = 1) =>
             /\ WeightedColumns(ret.value) = UnweightedColumns(ret.value)
             /\ \A t \in 1..Len(calls[1].results) :
                  WeightedColumns(calls[1].results[t].table)
                      = UnweightedColumns(calls[1].results[t].table)

\* weights that are not uniform shift the weighted distance of a covariate
\* away from the unweighted one, three treatment levels
C20_Witness ==
    /\ IsBalanceCall
    /\ Cardinality(Range(args.a)) = 3
    /\ args.metric = "smd"
    /\ \E k \in 1..Len(args.w) : args.w[k] # 1
    /\ ret.value.data[1][1].kind = "distance"
    /\ ret.value.data[1][2].kind = "distance"
    /\ ret.value.data[1][1].num * ret.value.data[1][2].scale
         # ret.value.data[1][2].num * ret.value.data[1][1].scale

\* the bundles of _estimator_predict and of _estimator_predict2 of the weight
\* and propensity predictors, weight_evaluator.py lines 136-163 and 216-246
PredictorBundleTypes ==
    {"WeightEvaluatorPredictions", "PropensityEvaluatorPredictions",
     "WeightEvaluatorPredictions2", "PropensityEvaluatorPredictions2"}

(***************************************************************************)
(* C24: score_estimation accepts every bundle the weight and propensity    *)
(* predictors produce, the vector-based and the matrix-based ones alike:   *)
(* each is forwarded to calculate_metrics(X, a_true, metrics) and none     *)
(* ends in the error for an invalid type.                                  *)
(***************************************************************************)
C24_PredictorBundlesAccepted ==
    IsCV =>
      \A n \in 1..Len(calls) :
        calls[n].prediction.type \in PredictorBundleTypes =>
            /\ calls[n].dispatch.branch = "weight"
            /\ calls[n].dispatch.self = calls[n].prediction
            /\ ~(n = Len(calls) /\ ret.exc = "ValueError"
                   /\ ret.message = calls[n].prediction.type)

\* score_cv had nothing to score: no folds, or no phase keys
ZeroWork == IsCV /\ (Len(args.cv) = 0 \/ Len(args.predictions) = 0)

(***************************************************************************)
(* C25: with an empty fold list or no phase keys score_cv never calls      *)
(* score_estimation and still ends in a defined outcome, an aggregate or   *)
(* an error about the empty input; it never reads the per-fold result      *)
(* before it was assigned.                                                 *)
(***************************************************************************)
C25_ZeroWorkDefined ==
    (ZeroWork /\ pc \in {"done", "raised"}) =>
        /\ Len(calls) = 0
        /\ ret.exc # "UnboundLocalError"
        /\ ~(pc = "raised" /\ fold_scores = Unbound /\ i = Len(args.cv))

IsCurveCall == op = "calculate_performance_curve_data_on_folds"

\* the weights of the fold at position f as the call hands them to the metrics
FoldWeights(f) ==
    IF args.sample_weights = None THEN None ELSE Some(args.sample_weights.v[f])

\* the area metric fails validation on the fold at position f
AreaUndefined(f) ==
    MetricRaises(args.area_metric, args.folds_targets[f], args.folds_predictions[f])
        = "ValueError"

\* the entry of the fold at position f in the list of the named curve part
IsCurvePart(entry, part, f) ==
    entry = CurveValue(args.curve_metric, part, args.folds_targets[f],
                       args.folds_predictions[f], args.pos_label, FoldWeights(f))

\* the entry of the fold at position f in the list of areas
IsArea(entry, f) ==
    IF AreaUndefined(f) THEN entry = NaN
    ELSE entry = MetricValue(args.area_metric, args.folds_targets[f],
                             args.folds_predictions[f], FoldWeights(f))

(***************************************************************************)
(* C23: calculate_performance_curve_data_on_folds returns four lists in    *)
(* the documented order, first curve values, second curve values,          *)
(* thresholds, areas, each with one entry per fold in fold order; a fold   *)
(* whose area metric raises ValueError has the area NaN, its curve values  *)
(* and thresholds are recorded and the other folds are processed.          *)
(***************************************************************************)
C23_DocumentedOrder ==
    (IsCurveCall /\ args.area_metric # "user_type_error") =>
        /\ ret.exc = "none"
        /\ Len(ret.value) = 4
        /\ \A p \in 1..4 : Len(ret.value[p]) = Len(args.folds_targets)
        /\ \A f \in 1..Len(args.folds_targets) :
             /\ IsCurvePart(ret.value[1][f], "first", f)
             /\ IsCurvePart(ret.value[2][f], "second", f)
             /\ IsCurvePart(ret.value[3][f], "thresholds", f)
             /\ IsArea(ret.value[4][f], f)

\* the same lists in the order of the return statement, areas first
C23_AreasFirst ==
    (IsCurveCall /\ args.area_metric # "user_type_error") =>
        /\ ret.exc = "none"
        /\ Len(ret.value) = 4
        /\ \A p \in 1..4 : Len(ret.value[p]) = Len(args.folds_targets)
        /\ \A f \in 1..Len(args.folds_targets) :
             /\ IsArea(ret.value[1][f], f)
             /\ IsCurvePart(ret.value[2][f], "first", f)
             /\ IsCurvePart(ret.value[3][f], "second", f)
             /\ IsCurvePart(ret.value[4][f], "thresholds", f)

IsPlotCall == op = "plot_evaluation_results"
IsMultipanelCall == op = "_make_multipanel_evaluation_plot"
IsSinglePanelCall == op = "_make_single_panel_evaluation_plot"

\* plot_names is one plot name, not the word all and not a list
SingleNameRequest ==
    IsPlotCall /\ args.plot_names.kind = "str" /\ args.plot_names.v[1] # "all"

\* the train indices of every fold of the results
TrainFolds == [f \in 1..Len(args.results.cv) |-> args.results.cv[f].train]

(***************************************************************************)
(* C21: plot_evaluation_results with one plot name and no phase plots the  *)
(* train phase: the plot data is requested for phase "train" and the plot  *)
(* function is handed the train indices of every fold of results.cv.       *)
(***************************************************************************)
C21_SinglePlotDefaultsToTrain ==
    (SingleNameRequest /\ args.phase = None) =>
        \A n \in 1..Len(calls) :
            /\ calls[n].fn = "get_data_for_plot" => calls[n].phase = Some("train")
            /\ calls[n].fn = "plot_func" => calls[n].cv = TrainFolds

\* the plot of this name can be made from the results of the call
Plottable(name) ==
    /\ name \in Range(args.results.all_plot_names)
    /\ ~BindingRaises(args.results.parameters, 4, {"phase"})
    /\ name \notin args.results.failing

\* the last position of the name in the list of names
LastPosition(names, name) ==
    CHOOSE n \in 1..Len(names) :
        names[n] = name /\ \A m \in (n + 1)..Len(names) : names[m] # name

\* the positions of the names whose plot cannot be made
FailedPositions ==
    {n \in 1..Len(args.plot_names) : ~Plottable(args.plot_names[n])}

(***************************************************************************)
(* C22: _make_multipanel_evaluation_plot attempts every name of the list   *)
(* in list order and returns a mapping with exactly one entry per          *)
(* requested name: the axis of the plot when it was made, None with a      *)
(* warning when it raised, a name outside results.all_plot_names           *)
(* included; no failure ends the call.  A request for a single             *)
(* unsupported name raises ValueError to the caller.                       *)
(***************************************************************************)
C22_FailuresIsolated ==
    /\ IsMultipanelCall =>
         /\ ret.exc = "none"
         /\ args.attempts = args.plot_names
         /\ NoDuplicateNames(Names(ret.value.items))
         /\ Range(Names(ret.value.items)) = Range(args.plot_names)
         /\ Len(warns) = Cardinality(FailedPositions)
         /\ \A k \in 1..Len(ret.value.items) :
              LET name == ret.value.items[k].name
                  value == ret.value.items[k].value
              IN  IF Plottable(name)
                  THEN /\ value # None
                       /\ value.kind = "axis"
                       /\ value.plot_name = name
                       /\ value.data.phase = args.phase
                       /\ value.ax = Some(LastPosition(args.plot_names, name) - 1)
                  ELSE /\ value = None
                       /\ \E w \in 1..Len(warns) : warns[w].name = name
    /\ (IsPlotCall /\ ~SingleNameRequest) => ret.exc = "none"
    /\ (SingleNameRequest /\ args.plot_names.v[1] \notin Range(args.results.all_plot_names)) =>
         ret.exc = "ValueError" /\ ret.value = NoValue
    /\ (IsSinglePanelCall /\ args.plot_name \notin Range(args.results.all_plot_names)) =>
         ret.exc = "ValueError" /\ ret.value = NoValue

\* two names: the first is none the results support, the second is drawn
\* after the first has failed
C22_Witness ==
    /\ IsMultipanelCall
    /\ Len(args.plot_names) = 2
    /\ args.plot_names[1] \notin Range(args.results.all_plot_names)
    /\ Len(ret.value.items) = 2
    /\ ret.value.items[1].value = None
    /\ ret.value.items[2].value # None
    /\ ret.value.items[2].value.kind = "axis"
    /\ Len(warns) = 1

====
